---- MODULE Spec2Model ----
(***************************************************************************)
(* Verification model of the profile automaton (Profile, ProfileState,     *)
(* ProfileTransition) and of the diagonal envelope (DiagonalEnvelope) of   *)
(* the progressive ancestral reconstruction engine.                        *)
(*                                                                         *)
(* Indices are those of the program: states and transitions are numbered   *)
(* from 0, so state s of a profile P is P.state[s+1] and transition t is   *)
(* P.trans[t+1].  Maps (std::map) are functions whose DOMAIN is the set    *)
(* of keys present.                                                        *)
(***************************************************************************)
EXTENDS Integers, Sequences, FiniteSets, TLC

VARIABLES op, prof, prev, args, nReady, envOp, env, call, retry, rng, params, data

profVars == <<op, prof, prev, args, nReady>>

envVars == <<envOp, env, call>>

\* the variables of the Reconstructor: the Forward retry loop of a node, the random
\* number generator, the envelope parameters read from the command line, the dataset
\* under reconstruction
reconVars == <<retry, rng, params, data>>

vars == <<op, prof, prev, args, nReady, envOp, env, call, retry, rng, params, data>>

(***************************************************************************)
(* Bounds of the model.                                                    *)
(***************************************************************************)
\* longest leaf sequence given to the leaf constructor
MaxLen == 3
\* largest number of mixture components
MaxCpt == 2
\* largest alignment row index of a leaf
MaxRow == 1
\* largest number of states of a profile handed to addReadyStates
MaxStates == 4
\* how many times in a row addReadyStates is applied
MaxApply == 2
\* longest sequences x and y of a diagonal envelope
MaxXLen == 6
MaxYLen == 6

(***************************************************************************)
(* Values.                                                                 *)
(***************************************************************************)
\* -numeric_limits<double>::infinity()
NegInf == -1000000

\* the alphabet of the rate model, an ordered string of residue characters
Alphabet == <<"A", "C">>

\* Alignment::wildcardChar
wildcardChar == "*"

isWildcard(c) == c = wildcardChar

Max(a, b) == IF a >= b THEN a ELSE b

Min(a, b) == IF a <= b THEN a ELSE b

\* std::map::operator[] read of a missing key yields a value-initialised entry
MapGet(m, k) == IF k \in DOMAIN m THEN m[k] ELSE 0

MapPut(m, k, v) == [x \in (DOMAIN m) \cup {k} |-> IF x = k THEN v ELSE m[x]]

EmptyMap == <<>>

\* position of character c in the alphabet, -1 when it is not a member
RECURSIVE tokenizeFrom(_, _, _)
tokenizeFrom(c, alphabet, i) ==
  IF i > Len(alphabet) THEN -1
  ELSE IF alphabet[i] = c THEN i - 1
  ELSE tokenizeFrom(c, alphabet, i + 1)

tokenize(c, alphabet) == tokenizeFrom(c, alphabet, 1)

\* FastSeq::tokens
tokens(seq, alphabet) == [i \in 1..Len(seq) |-> tokenize(seq[i], alphabet)]

\* number of residues (true bits) of one row of an align path
RECURSIVE alignPathResiduesInRow(_)
alignPathResiduesInRow(row) ==
  IF row = <<>> THEN 0
  ELSE (IF Head(row) THEN 1 ELSE 0) + alignPathResiduesInRow(Tail(row))

(***************************************************************************)
(* ProfileTransition, ProfileState.                                        *)
(***************************************************************************)
\* ProfileTransition::ProfileTransition(); src and dest are set by the caller
DefaultTransition == [src |-> 0, dest |-> 0, lpTrans |-> NegInf, alignPath |-> EmptyMap]

\* ProfileState::ProfileState()
DefaultState ==
  [name |-> "", meta |-> EmptyMap, in |-> <<>>, nullOut |-> <<>>, absorbOut |-> <<>>,
   lpAbsorb |-> <<>>, alignPath |-> EmptyMap, seqCoords |-> EmptyMap]

\* ProfileState::ProfileState (components, alphSize)
AbsorbingState(components, alphSize) ==
  [DefaultState EXCEPT !.lpAbsorb = [cpt \in 1..components |-> [tok \in 1..alphSize |-> NegInf]]]

isNull(st) == st.lpAbsorb = <<>>

isWait(st) == st.absorbOut = <<>>

isReady(st) == st.nullOut = <<>> /\ st.absorbOut # <<>>

size(P) == Len(P.state)

\* Profile::Profile(), the default-constructed profile
EmptyProfile ==
  [components |-> 0, alphSize |-> 0, name |-> "", meta |-> EmptyMap, seq |-> EmptyMap,
   state |-> <<>>, trans |-> <<>>, equivAbsorbState |-> EmptyMap]

(***************************************************************************)
(* Profile::Profile (components, alphabet, seq, rowIndex): the profile of  *)
(* a leaf sequence.                                                        *)
(***************************************************************************)
PathGet(m, k) == IF k \in DOMAIN m THEN m[k] ELSE <<>>

\* faulty variant of LeafEmission: a wildcard is treated as any other character
LeafEmission_NoWildcard(lpa, c, tok) ==
  [a \in DOMAIN lpa |-> IF a = tok + 1 THEN 0 ELSE lpa[a]]

\* the emission row of one component for residue character c with token tok
LeafEmission(lpa, c, tok) ==
  IF isWildcard(c) THEN [a \in DOMAIN lpa |-> 0]
  ELSE [a \in DOMAIN lpa |-> IF a = tok + 1 THEN 0 ELSE lpa[a]]

\* faulty variant of LeafTransition: lpTrans keeps its initial value
LeafTransition_NoLogProb(t, pos) == [t EXCEPT !.src = pos, !.dest = pos + 1]

\* trans[pos]: the transition from chain position pos to pos + 1
LeafTransition(t, pos) == [t EXCEPT !.src = pos, !.dest = pos + 1, !.lpTrans = 0]

\* the transition index pos is appended to an outgoing list of state pos
LeafOut(st, pos, isLast) ==
  IF isLast THEN [st EXCEPT !.nullOut = Append(@, pos)]
  ELSE [st EXCEPT !.absorbOut = Append(@, pos)]

\* faulty variant of LeafAbsorber: the coordinate is that of the state before
LeafAbsorber_CoordBefore(st, c, tok, rowIndex, pos) ==
  [st EXCEPT !.name = c \o ToString(pos + 1),
             !.alignPath = MapPut(@, rowIndex, Append(PathGet(@, rowIndex), TRUE)),
             !.seqCoords = MapPut(@, rowIndex, pos),
             !.lpAbsorb = [cpt \in DOMAIN @ |-> LeafEmission(@[cpt], c, tok)]]

\* state pos + 1 of the chain, the state that absorbs residue pos of the sequence
LeafAbsorber(st, c, tok, rowIndex, pos) ==
  [st EXCEPT !.name = c \o ToString(pos + 1),
             !.alignPath = MapPut(@, rowIndex, Append(PathGet(@, rowIndex), TRUE)),
             !.seqCoords = MapPut(@, rowIndex, pos + 1),
             !.lpAbsorb = [cpt \in DOMAIN @ |-> LeafEmission(@[cpt], c, tok)]]

\* one iteration of the constructor's loop over pos = 0 .. dsq.size()
LeafStep(P, seq, dsq, rowIndex, pos) ==
  LET last == pos = Len(dsq)
      st1  == [P.state EXCEPT ![pos + 1] = LeafOut(@, pos, last)]
      st2  == [st1 EXCEPT ![pos + 2].in = Append(@, pos)]
      st3  == IF pos < Len(dsq)
              THEN [st2 EXCEPT ![pos + 2] =
                      LeafAbsorber(@, seq[pos + 1], dsq[pos + 1], rowIndex, pos)]
              ELSE st2
  IN [P EXCEPT !.trans[pos + 1] = LeafTransition(@, pos), !.state = st3]

RECURSIVE LeafLoop(_, _, _, _, _)
LeafLoop(P, seq, dsq, rowIndex, pos) ==
  IF pos > Len(dsq) THEN P
  ELSE LeafLoop(LeafStep(P, seq, dsq, rowIndex, pos), seq, dsq, rowIndex, pos + 1)

\* the member initialisers and the statements before the loop
LeafStart(components, alphabet, seq, rowIndex) ==
  LET L == Len(seq)
      K == Len(alphabet)
  IN [components |-> components,
      alphSize |-> K,
      name |-> "leaf",
      meta |-> EmptyMap,
      seq |-> EmptyMap,
      state |-> [i \in 1..(L + 2) |->
                   IF i = 1
                   THEN [DefaultState EXCEPT !.name = "START",
                                             !.seqCoords = MapPut(@, rowIndex, 0)]
                   ELSE IF i = L + 2
                   THEN [DefaultState EXCEPT !.name = "END",
                                             !.seqCoords = MapPut(@, rowIndex, L)]
                   ELSE AbsorbingState(components, K)],
      trans |-> [i \in 1..(L + 1) |-> DefaultTransition],
      equivAbsorbState |-> EmptyMap]

LeafProfile(components, alphabet, seq, rowIndex) ==
  LET P == LeafLoop(LeafStart(components, alphabet, seq, rowIndex),
                    seq, tokens(seq, alphabet), rowIndex, 0)
  IN [P EXCEPT !.seq = MapPut(@, rowIndex, seq)]

(***************************************************************************)
(* The assertions.                                                         *)
(***************************************************************************)
RECURSIVE addResidues(_, _, _)
\* for (rp: path) seqCoords[rp.first] += alignPathResiduesInRow (rp.second)
addResidues(coords, path, rows) ==
  IF rows = {} THEN coords
  ELSE LET r == CHOOSE x \in rows : \A y \in rows : x <= y
       IN addResidues(MapPut(coords, r, MapGet(coords, r) + alignPathResiduesInRow(path[r])),
                      path, rows \ {r})

\* ProfileState::assertSeqCoordsConsistent: TRUE when no assertion fails
StateSeqCoordsConsistent(srcCoords, destCoords, transPath, destPath) ==
  LET c1 == addResidues(srcCoords, transPath, DOMAIN transPath)
      seqCoords == addResidues(c1, destPath, DOMAIN destPath)
  IN \A r \in DOMAIN destCoords : r \in DOMAIN seqCoords /\ seqCoords[r] = destCoords[r]

\* Profile::assertSeqCoordsConsistent: TRUE when no assertion fails
assertSeqCoordsConsistent(P) ==
  \A i \in 1..Len(P.trans) :
    LET t == P.trans[i]
    IN StateSeqCoordsConsistent(P.state[t.src + 1].seqCoords, P.state[t.dest + 1].seqCoords,
                                t.alignPath, P.state[t.dest + 1].alignPath)

\* Profile::assertAllStatesWaitOrReady: TRUE when no assertion fails
assertAllStatesWaitOrReady(P) ==
  \A i \in 1..Len(P.state) : isReady(P.state[i]) \/ isWait(P.state[i])

(***************************************************************************)
(* Profile::leftMultiply.  Log-probabilities are kept exactly: the         *)
(* logarithm of a whole-number weight w >= 1 is written w - 1, so that     *)
(* log(1) is 0, and the logarithm of 0 is NegInf.  A substitution matrix   *)
(* is a matrix of such weights.                                            *)
(***************************************************************************)
\* log (w)
log(w) == IF w = 0 THEN NegInf ELSE w - 1

\* the weight whose logarithm is lp
exp(lp) == IF lp = NegInf THEN 0 ELSE lp + 1

\* the sum a + b of two log-probabilities (the logarithm of the product)
LogPlus(a, b) == log(exp(a) * exp(b))

\* log_sum_exp (a, b): the logarithm of the sum
log_sum_exp(a, b) == log(exp(a) + exp(b))

\* the loop over d: lp = log_sum_exp (lp, log (sub[c][d]) + lpAbsorb[d])
RECURSIVE LeftSum(_, _, _, _)
LeftSum(subRow, lpa, d, lp) ==
  IF d > Len(lpa) THEN lp
  ELSE LeftSum(subRow, lpa, d + 1, log_sum_exp(lp, LogPlus(log(subRow[d]), lpa[d])))

\* faulty variant of LeftRow: each entry is written to the table the next is read from
RECURSIVE LeftRowInPlace(_, _, _)
LeftRowInPlace(subCpt, lpa, c) ==
  IF c > Len(lpa) THEN lpa
  ELSE LeftRowInPlace(subCpt, [lpa EXCEPT ![c] = LeftSum(subCpt[c], lpa, 1, NegInf)], c + 1)

LeftRow_InPlace(subCpt, lpa) == LeftRowInPlace(subCpt, lpa, 1)

\* the loop over c for one component: every entry is computed from state[i].lpAbsorb
\* of the profile multiplied and written to the copy
LeftRow(subCpt, lpa) == [c \in 1..Len(lpa) |-> LeftSum(subCpt[c], lpa, 1, NegInf)]

\* the loop over cpt for one state that is not null
LeftState(st, sub, components) ==
  [st EXCEPT !.lpAbsorb =
     [cpt \in DOMAIN @ |-> IF cpt <= components THEN LeftRow(sub[cpt], @[cpt]) ELSE @[cpt]]]

\* Profile::leftMultiply
leftMultiply(P, sub) ==
  [P EXCEPT !.state =
     [i \in DOMAIN @ |-> IF ~isNull(@[i]) THEN LeftState(@[i], sub, P.components) ELSE @[i]]]

(***************************************************************************)
(* Profile::addReadyStates.                                                *)
(***************************************************************************)
WaitStateSuffix == ";"

ReadyStateSuffix == "."

\* faulty variant of needsReadyState: every state that is not Ready is split
needsReadyState_NotReady(st) == ~isReady(st)

\* a state that is neither Ready nor Wait is split
needsReadyState(st) == ~isReady(st) /\ ~isWait(st)

\* faulty variant of ReadyState: the sequence coordinates of state s are not copied
ReadyState_NoCoords(orig, cur, readyTransIdx) ==
  [DefaultState EXCEPT !.name = orig.name \o ReadyStateSuffix,
                       !.meta = orig.meta,
                       !.absorbOut = cur.absorbOut,
                       !.in = <<readyTransIdx>>]

\* readyState: the fresh state that takes over the absorbing transitions of state s
ReadyState(orig, cur, readyTransIdx) ==
  [DefaultState EXCEPT !.name = orig.name \o ReadyStateSuffix,
                       !.meta = orig.meta,
                       !.seqCoords = orig.seqCoords,
                       !.absorbOut = cur.absorbOut,
                       !.in = <<readyTransIdx>>]

\* faulty variant of WaitState: the absorbing transitions are copied to the ready
\* state, not moved
WaitState_KeepsAbsorbing(cur, readyTransIdx) ==
  [cur EXCEPT !.name = @ \o WaitStateSuffix,
              !.nullOut = Append(@, readyTransIdx)]

\* profState[s] once it has been split: it keeps its null transitions and gains readyTrans
WaitState(cur, readyTransIdx) ==
  [cur EXCEPT !.name = @ \o WaitStateSuffix,
              !.absorbOut = <<>>,
              !.nullOut = Append(@, readyTransIdx)]

\* faulty variant of ReadyTrans: the end points are exchanged
ReadyTrans_Reversed(s, oldReadyStateIdx) ==
  [DefaultTransition EXCEPT !.src = oldReadyStateIdx, !.dest = s, !.lpTrans = 0]

\* readyTrans: the null transition from state s to its ready state
ReadyTrans(s, oldReadyStateIdx) ==
  [DefaultTransition EXCEPT !.src = s, !.dest = oldReadyStateIdx, !.lpTrans = 0]

\* the body of the if: state s (old numbering) gets a ready state
SplitState(P, s, acc) ==
  LET oldReadyStateIdx == Len(acc.profState)
      newReadyStateIdx == acc.n
      readyTransIdx    == Len(acc.trans)
      readyState       == ReadyState(P.state[s + 1], acc.profState[s + 1], readyTransIdx)
  IN [profState |-> Append([acc.profState EXCEPT ![s + 1] = WaitState(@, readyTransIdx)],
                           readyState),
      trans     |-> Append(acc.trans, ReadyTrans(s, oldReadyStateIdx)),
      old2new   |-> Append(acc.old2new, newReadyStateIdx),
      n         |-> acc.n + 1]

\* one iteration of the first loop: for (s = 0, n = 0; s < size(); ++s)
ReadyStep(P, s, acc) ==
  LET acc1 == [acc EXCEPT !.old2new[s + 1] = acc.n, !.n = acc.n + 1]
  IN IF needsReadyState(P.state[s + 1]) THEN SplitState(P, s, acc1) ELSE acc1

RECURSIVE ReadyLoop(_, _, _)
ReadyLoop(P, s, acc) ==
  IF s >= size(P) THEN acc ELSE ReadyLoop(P, s + 1, ReadyStep(P, s, acc))

\* second loop: swap (profState[s], prof.state[old2newStateIndex[s]])
RECURSIVE PlaceStates(_, _, _, _)
PlaceStates(profState, old2new, s, out) ==
  IF s >= Len(profState) THEN out
  ELSE PlaceStates(profState, old2new, s + 1,
                   [out EXCEPT ![old2new[s + 1] + 1] = profState[s + 1]])

\* third loop: every transition's end points are renumbered
RenumberTrans(t, old2new) ==
  [t EXCEPT !.src = old2new[t.src + 1], !.dest = old2new[t.dest + 1]]

\* last loop: the keys and values of equivAbsorbState are renumbered
RenumberEquiv(equiv, old2new) ==
  [k \in {old2new[x + 1] : x \in DOMAIN equiv} |->
     LET x == CHOOSE y \in DOMAIN equiv :
                old2new[y + 1] = k /\ \A z \in DOMAIN equiv : old2new[z + 1] = k => z <= y
     IN old2new[equiv[x] + 1]]

addReadyStates(P) ==
  LET acc == ReadyLoop(P, 0, [profState |-> P.state, trans |-> P.trans,
                              old2new |-> [i \in 1..size(P) |-> 0], n |-> 0])
  IN [components |-> P.components,
      alphSize |-> P.alphSize,
      name |-> P.name,
      meta |-> P.meta,
      seq |-> P.seq,
      state |-> PlaceStates(acc.profState, acc.old2new, 0,
                            [i \in 1..Len(acc.profState) |-> DefaultState]),
      trans |-> [i \in 1..Len(acc.trans) |-> RenumberTrans(acc.trans[i], acc.old2new)],
      equivAbsorbState |-> RenumberEquiv(P.equivAbsorbState, acc.old2new)]

(***************************************************************************)
(* The profiles handed to addReadyStates besides leaf profiles: profiles   *)
(* of an internal node over two leaf rows 0 and 1, as the profile builders *)
(* leave them.  State 0 is START, state N-1 is END, both null; an inner    *)
(* state is null or absorbs one column with a residue in row 0, in row 1   *)
(* or in both; transitions go from lower to higher states; a transition's  *)
(* align path carries the residues that its end points' coordinates leave  *)
(* out, so that the sequence coordinates are consistent.                   *)
(***************************************************************************)
GivenRows == {0, 1}

Kinds == {"null", "xy", "x", "y"}

Pairs(N) == {e \in (0..(N - 1)) \X (0..(N - 1)) : e[1] < e[2]}

\* every state but START is entered and every state but END is left
Connected(N, E) ==
  /\ \A j \in 1..(N - 1) : \E e \in E : e[2] = j
  /\ \A i \in 0..(N - 2) : \E e \in E : e[1] = i

KindOf(N, kind, i) == IF i = 0 \/ i = N - 1 THEN "null" ELSE kind[i]

KindBit(k, r) == (k = "xy") \/ (k = "x" /\ r = 0) \/ (k = "y" /\ r = 1)

RECURSIVE SetMax(_)
SetMax(S) ==
  IF S = {} THEN 0
  ELSE LET x == CHOOSE y \in S : TRUE IN Max(x, SetMax(S \ {x}))

RECURSIVE GivenCoord(_, _, _, _, _)
GivenCoord(N, kind, E, j, r) ==
  IF j = 0 THEN 0
  ELSE SetMax({GivenCoord(N, kind, E, e[1], r) : e \in {f \in E : f[2] = j}})
       + (IF KindBit(KindOf(N, kind, j), r) THEN 1 ELSE 0)

\* the edges in increasing (src, dest) order
RECURSIVE SortedEdges(_, _)
SortedEdges(N, E) ==
  IF E = {} THEN <<>>
  ELSE LET e == CHOOSE x \in E : \A y \in E : x[1] * N + x[2] <= y[1] * N + y[2]
       IN <<e>> \o SortedEdges(N, E \ {e})

\* the indices (from 0) of the members of sequence es that satisfy Keep, in order
IndicesWhere(es, Keep(_)) ==
  SelectSeq([i \in 1..Len(es) |-> i - 1], LAMBDA i : Keep(es[i + 1]))

GivenPath(k0, k1) ==
  LET len == Max(k0, k1)
  IN IF len = 0 THEN EmptyMap
     ELSE [r \in GivenRows |-> [c \in 1..len |-> c <= (IF r = 0 THEN k0 ELSE k1)]]

GivenProfile(N, kind, E) ==
  LET es == SortedEdges(N, E)
      co(j, r) == GivenCoord(N, kind, E, j, r)
      bit(j, r) == IF KindBit(KindOf(N, kind, j), r) THEN 1 ELSE 0
      isAbs(j) == KindOf(N, kind, j) # "null"
      mkState(j) ==
        LET base == IF isAbs(j)
                    THEN [cpt \in 1..1 |-> [tok \in 1..Len(Alphabet) |-> IF tok = 1 THEN 0 ELSE NegInf]]
                    ELSE <<>>
            IsIn(e) == e[2] = j
            IsNullOut(e) == e[1] = j /\ ~isAbs(e[2])
            IsAbsOut(e) == e[1] = j /\ isAbs(e[2])
        IN [name |-> IF j = 0 THEN "START" ELSE IF j = N - 1 THEN "END" ELSE "S" \o ToString(j),
            meta |-> EmptyMap,
            in |-> IndicesWhere(es, IsIn),
            nullOut |-> IndicesWhere(es, IsNullOut),
            absorbOut |-> IndicesWhere(es, IsAbsOut),
            lpAbsorb |-> base,
            alignPath |-> IF isAbs(j) THEN [r \in GivenRows |-> <<bit(j, r) = 1>>] ELSE EmptyMap,
            seqCoords |-> [r \in GivenRows |-> co(j, r)]]
      mkTrans(i) ==
        LET e == es[i]
        IN [src |-> e[1], dest |-> e[2], lpTrans |-> 0 - i,
            alignPath |-> GivenPath(co(e[2], 0) - bit(e[2], 0) - co(e[1], 0),
                                    co(e[2], 1) - bit(e[2], 1) - co(e[1], 1))]
  IN [components |-> 1,
      alphSize |-> Len(Alphabet),
      name |-> "node",
      meta |-> EmptyMap,
      seq |-> EmptyMap,
      state |-> [i \in 1..N |-> mkState(i - 1)],
      trans |-> [i \in 1..Len(es) |-> mkTrans(i)],
      equivAbsorbState |-> EmptyMap]

(***************************************************************************)
(* DiagonalEnvelope.  Cell (i,j) lies on diagonal d = i - j.  The arrays   *)
(* indexed by j or by yLen + d are functions on 0..n-1.                    *)
(***************************************************************************)
\* require at least this ratio of sequenceLength/(kmerLen + kmerThreshold) for sparse envelope
MIN_KMERS_FOR_SPARSE_ENVELOPE == 2

\* width of unsigned int (SeqIdx, the k-mer counts and the seed diagonals of
\* countDistrib), scaled from 32 to 30 bits to fit the model checker's integers:
\* what the model keeps is that unsigned arithmetic wraps around
UIntBits == 30

UIntMod == 2 ^ UIntBits

\* conversion of an int to unsigned int, and back
ToUnsigned(n) == n % UIntMod

ToInt(u) == IF u >= UIntMod \div 2 THEN u - UIntMod ELSE u

\* numeric_limits<unsigned int>::max()
UIntMax == UIntMod - 1

RECURSIVE SortedSeq(_)
\* the members of a set of integers in ascending order (iteration of a std::set)
SortedSeq(S) ==
  IF S = {} THEN <<>>
  ELSE LET m == CHOOSE x \in S : \A y \in S : x <= y IN <<m>> \o SortedSeq(S \ {m})

Range(f) == {f[i] : i \in DOMAIN f}

\* DiagonalEnvelope (x, y): the envelope of two sequences before initialisation
NewEnvelope(x, y) ==
  [px |-> x, py |-> y, xLen |-> Len(x), yLen |-> Len(y),
   diagonals |-> <<>>, storageDiagonals |-> <<>>,
   storageIndex |-> <<>>, storageOffset |-> <<>>,
   storageSize |-> <<>>, cumulStorageSize |-> <<>>, totalStorageSize |-> 0]

\* The lowest and highest diagonal of the DP matrix.  initFull reserves
\* xLen + yLen - 1 entries for minDiagonal()..maxDiagonal(), and initStorage
\* indexes a vector of xLen + yLen + 1 entries by yLen + d for these diagonals
\* and their two neighbours, which fixes both ends.
minDiagonal(E) == 1 - E.yLen

maxDiagonal(E) == E.xLen - 1

get_diag(i, j) == i - j

get_i(j, d) == d + j

\* row j of the DP matrix has a cell on diagonal d
intersects(E, j, d) == get_i(j, d) > 0 /\ get_i(j, d) <= E.xLen

\* position in storageDiagonals of the first storage diagonal that intersects row j
storageBeginIntersecting(E, j) ==
  Cardinality({n \in 1..Len(E.storageDiagonals) : get_i(j, E.storageDiagonals[n]) <= 0})

\* position in storageDiagonals just past the last storage diagonal that intersects row j
storageEndIntersecting(E, j) ==
  Cardinality({n \in 1..Len(E.storageDiagonals) : get_i(j, E.storageDiagonals[n]) <= E.xLen})

\* faulty variant of StorageDiags: the upper neighbour is left out
StorageDiags_NoUpper(diagonals) == UNION {{d, d - 1} : d \in Range(diagonals)}

\* the storage diagonals: every diagonal and its two neighbours
StorageDiags(diagonals) == UNION {{d, d - 1, d + 1} : d \in Range(diagonals)}

\* storageIndex: vguard<int> (xLen + yLen + 1, -1), then entry yLen + d is set for
\* every storage diagonal d
StorageIndex(E, sd) ==
  [k \in 0..(E.xLen + E.yLen) |->
     IF \E n \in 1..Len(sd) : E.yLen + sd[n] = k
     THEN (CHOOSE n \in 1..Len(sd) : E.yLen + sd[n] = k) - 1
     ELSE -1]

\* every index yLen + d used on storageIndex is within the vector
StorageIndexInRange(E, sd) ==
  \A n \in 1..Len(sd) : E.yLen + sd[n] >= 0 /\ E.yLen + sd[n] <= E.xLen + E.yLen

\* faulty variant of StorageRow: cumulStorageSize[j] is read after the total is raised
StorageRow_CumulAfter(E, j) ==
  LET b == storageBeginIntersecting(E, j)
      e == storageEndIntersecting(E, j)
  IN [E EXCEPT !.storageSize[j] = e - b,
               !.cumulStorageSize[j] = E.totalStorageSize + (e - b),
               !.totalStorageSize = E.totalStorageSize + (e - b),
               !.storageOffset[j] =
                  IF b # e THEN E.storageIndex[E.yLen + E.storageDiagonals[b + 1]] ELSE @]

\* one iteration of the loop over j = 0 .. yLen
StorageRow(E, j) ==
  LET b == storageBeginIntersecting(E, j)
      e == storageEndIntersecting(E, j)
  IN [E EXCEPT !.storageSize[j] = e - b,
               !.cumulStorageSize[j] = E.totalStorageSize,
               !.totalStorageSize = E.totalStorageSize + (e - b),
               !.storageOffset[j] =
                  IF b # e THEN E.storageIndex[E.yLen + E.storageDiagonals[b + 1]] ELSE @]

RECURSIVE StorageLoop(_, _)
StorageLoop(E, j) == IF j > E.yLen THEN E ELSE StorageLoop(StorageRow(E, j), j + 1)

\* DiagonalEnvelope::initStorage; ok is FALSE when an index is outside storageIndex
initStorage(E) ==
  LET sd == SortedSeq(StorageDiags(E.diagonals))
      E1 == [E EXCEPT !.storageDiagonals = sd]
  IN IF ~StorageIndexInRange(E, sd) THEN [ok |-> FALSE, env |-> E1]
     ELSE [ok |-> TRUE,
           env |-> StorageLoop([E1 EXCEPT !.storageIndex = StorageIndex(E, sd),
                                          !.storageOffset = [j \in 0..E.yLen |-> -1],
                                          !.storageSize = [j \in 0..E.yLen |-> 0],
                                          !.cumulStorageSize = [j \in 0..E.yLen |-> 0],
                                          !.totalStorageSize = 0], 0)]

\* faulty variant of FullDiagonals: the range is one diagonal wider at each end
FullDiagonals_Wider(E) ==
  [n \in 1..(maxDiagonal(E) - minDiagonal(E) + 3) |-> minDiagonal(E) + n - 2]

\* the diagonals of the full envelope
FullDiagonals(E) == [n \in 1..(maxDiagonal(E) - minDiagonal(E) + 1) |-> minDiagonal(E) + n - 1]

\* DiagonalEnvelope::initFull
initFull(E) == initStorage([E EXCEPT !.diagonals = FullDiagonals(E)])


\* faulty variant of forward_i: the storage diagonals are walked
forward_i_Storage(E, j) ==
  LET ds == SelectSeq(E.storageDiagonals, LAMBDA d : intersects(E, j, d))
  IN [n \in 1..Len(ds) |-> get_i(j, ds[n])]

\* DiagonalEnvelope::forward_i: get_i (j, d) of every diagonal d that intersects j,
\* in the order of diagonals
forward_i(E, j) ==
  LET ds == SelectSeq(E.diagonals, LAMBDA d : intersects(E, j, d))
  IN [n \in 1..Len(ds) |-> get_i(j, ds[n])]

\* DiagonalEnvelope::reverse_i: forward_i (j) from its last entry to its first
reverse_i(E, j) ==
  LET f == forward_i(E, j)
  IN [n \in 1..Len(f) |-> f[Len(f) + 1 - n]]

(***************************************************************************)
(* DiagonalEnvelope::initSparse.                                           *)
(***************************************************************************)
\* FastSeq::unvalidatedTokens: the token of each character, -1 for a character
\* that is not in the alphabet
unvalidatedTokens(seq, alphabet) == [i \in 1..Len(seq) |-> tokenize(seq[i], alphabet)]

\* the k-mer of tok that starts at position i (from 0) has only valid tokens
kmerValid(kmerLen, tok, i) == \A k \in 1..kmerLen : tok[i + k] >= 0

\* the k-mer of tok that starts at position i (from 0), as a number in base alphabetSize
RECURSIVE makeKmer(_, _, _, _)
makeKmer(kmerLen, tok, i, alphabetSize) ==
  IF kmerLen = 0 THEN 0
  ELSE makeKmer(kmerLen - 1, tok, i, alphabetSize) * alphabetSize + tok[i + kmerLen]

\* KmerIndex::kmerLocations: the start positions in y of each valid k-mer of y
kmerLocations(y, kmerLen, alphabet, kmer) ==
  LET yTok == unvalidatedTokens(y, alphabet)
  IN {j \in 0..(Len(y) - kmerLen) :
        kmerValid(kmerLen, yTok, j) /\ makeKmer(kmerLen, yTok, j, Len(alphabet)) = kmer}

\* faulty variant of UseFull: the budget is not looked at
UseFull_NoBudget(E, kmerLen, kmerThreshold, cellSize, maxSize) ==
  kmerThreshold >= 0 /\
    LET minLenForSparse == ToUnsigned(MIN_KMERS_FOR_SPARSE_ENVELOPE * (kmerLen + kmerThreshold))
    IN E.xLen < minLenForSparse \/ E.yLen < minLenForSparse

\* faulty variant of UseFull: the lengths are not looked at
UseFull_NoLength(E, kmerLen, kmerThreshold, cellSize, maxSize) ==
  kmerThreshold < 0 /\ E.xLen * E.yLen * cellSize < maxSize

\* the first test of initSparse: the envelope is full when a sequence is too short
\* (fixed threshold) or when the full matrix fits in maxSize (threshold < 0)
UseFull(E, kmerLen, kmerThreshold, cellSize, maxSize) ==
  IF kmerThreshold >= 0
  THEN LET minLenForSparse == ToUnsigned(MIN_KMERS_FOR_SPARSE_ENVELOPE * (kmerLen + kmerThreshold))
       IN E.xLen < minLenForSparse \/ E.yLen < minLenForSparse
  ELSE E.xLen * E.yLen * cellSize < maxSize

\* the last start position of the scan: for (i = 0; i <= xLen - kmerLen; ++i), unsigned
ScanLast(xLen, kmerLen) == ToUnsigned(xLen - kmerLen)

\* the start positions of the scan whose k-mer lies within x
ScanInRange(xLen, kmerLen) == {i \in 0..xLen : i <= ScanLast(xLen, kmerLen) /\ i + kmerLen <= xLen}

\* the scan goes on to start positions whose k-mer is not within x
ScanOverruns(xLen, kmerLen) == ScanLast(xLen, kmerLen) + kmerLen > xLen

\* the pairs (i,j) counted by the scan among the start positions I of x
Matches(x, y, kmerLen, alphabet, I) ==
  LET xTok == unvalidatedTokens(x, alphabet)
  IN UNION {{<<i, j>> : j \in kmerLocations(y, kmerLen, alphabet,
                                           makeKmer(kmerLen, xTok, i, Len(alphabet)))} :
            i \in {k \in I : kmerValid(kmerLen, xTok, k)}}

\* diagKmerCount: ++diagKmerCount[get_diag(i,j)] for every counted pair
DiagKmerCount(matches) ==
  [d \in {get_diag(m[1], m[2]) : m \in matches} |->
     Cardinality({m \in matches : get_diag(m[1], m[2]) = d})]

\* countDistrib: for each count, the set (of unsigned int) of the diagonals with that count
CountDistrib(diagKmerCount) ==
  [c \in Range(diagKmerCount) |->
     {ToUnsigned(d) : d \in {e \in DOMAIN diagKmerCount : diagKmerCount[e] = c}}]

\* faulty variant of BandMin: the seed diagonal is not converted back to int
BandMin_Unsigned(E, seedDiag, halfBandSize) == Max(minDiagonal(E), seedDiag - halfBandSize)

\* the band of compute diagonals around seed diagonal seedDiag
BandMin(E, seedDiag, halfBandSize) == Max(minDiagonal(E), ToInt(seedDiag) - halfBandSize)

BandMax(E, seedDiag, halfBandSize) == Min(maxDiagonal(E), ToInt(seedDiag) + halfBandSize)

\* moreDiags and moreStorageDiags after the seeds of one count bucket are added
MoreDiags(E, diags, seeds, halfBandSize) ==
  diags \cup UNION {BandMin(E, sd, halfBandSize)..BandMax(E, sd, halfBandSize) : sd \in seeds}

MoreStorageDiags(E, storageDiags, seeds, halfBandSize) ==
  storageDiags \cup UNION {(BandMin(E, sd, halfBandSize) - 1)..(BandMax(E, sd, halfBandSize) + 1) :
                           sd \in seeds}

\* faulty variant of OverBudget: a bucket that fills the budget exactly is taken
OverBudget_Above(moreStorageDiags, diagSize, maxSize) ==
  Cardinality(moreStorageDiags) * diagSize > maxSize

\* a bucket does not fit in memory (threshold < 0 only)
OverBudget(moreStorageDiags, diagSize, maxSize) ==
  Cardinality(moreStorageDiags) * diagSize >= maxSize

\* the loop over the count buckets, highest count first; counts is what is left of
\* the descending sequence of counts, st the variables the loop updates
RECURSIVE BucketLoop(_, _, _, _, _, _, _, _)
BucketLoop(E, countDistrib, counts, halfBandSize, kmerThreshold, diagSize, maxSize, st) ==
  IF counts = <<>> THEN st
  ELSE IF kmerThreshold >= 0 /\ Head(counts) < kmerThreshold THEN st
  ELSE LET seeds == countDistrib[Head(counts)]
           moreDiags == MoreDiags(E, st.diags, seeds, halfBandSize)
           moreStorageDiags == MoreStorageDiags(E, st.storageDiags, seeds, halfBandSize)
           moreNPastThreshold == st.nPastThreshold + Cardinality(seeds)
       IN IF kmerThreshold < 0 /\ OverBudget(moreStorageDiags, diagSize, maxSize) THEN st
          ELSE BucketLoop(E, countDistrib, Tail(counts), halfBandSize, kmerThreshold,
                          diagSize, maxSize,
                          [diags |-> moreDiags,
                           storageDiags |-> moreStorageDiags,
                           nPastThreshold |-> moreNPastThreshold,
                           threshold |-> IF kmerThreshold < 0 THEN Head(counts) ELSE st.threshold,
                           foundThreshold |-> IF kmerThreshold < 0 THEN TRUE ELSE st.foundThreshold,
                           admitted |-> Append(st.admitted, Head(counts))])

\* faulty variant of InitialDiags: the zeroth diagonal is not added
InitialDiags_Empty == {}

\* diags and storageDiags before the loop: always add the zeroth diagonal to ensure
\* at least one path exists
InitialDiags == {0}

Reverse(q) == [i \in 1..Len(q) |-> q[Len(q) + 1 - i]]

\* the part of initSparse after the scan, from the counted pairs to the diagonals
SparseDiagonals(E, matches, bandSize, kmerThreshold, cellSize, maxSize) ==
  LET countDistrib == CountDistrib(DiagKmerCount(matches))
      halfBandSize == bandSize \div 2
      diagSize == Min(E.xLen, E.yLen) * cellSize
  IN BucketLoop(E, countDistrib, Reverse(SortedSeq(DOMAIN countDistrib)), halfBandSize,
                kmerThreshold, diagSize, maxSize,
                [diags |-> InitialDiags,
                 storageDiags |-> InitialDiags,
                 nPastThreshold |-> 0,
                 threshold |-> IF kmerThreshold >= 0 THEN kmerThreshold ELSE UIntMax,
                 foundThreshold |-> kmerThreshold >= 0,
                 admitted |-> <<>>])


(***************************************************************************)
(* The profile under construction: op is the operation that produced prof, *)
(* prev the profile it was applied to, args the leaf constructor's         *)
(* arguments, nReady the number of addReadyStates calls made so far.       *)
(***************************************************************************)
LeafSeqs == UNION {[1..n -> {Alphabet[i] : i \in 1..Len(Alphabet)} \cup {wildcardChar}] : n \in 0..MaxLen}

NoArgs == [components |-> 0, seq |-> <<>>, row |-> 0]

NoCall ==
  [kmerLen |-> 0, bandSize |-> 0, kmerThreshold |-> 0, cellSize |-> 0, maxSize |-> 0,
   path |-> "none", overrun |-> FALSE, matches |-> {}, threshold |-> 0,
   foundThreshold |-> FALSE, nPastThreshold |-> 0, admitted |-> <<>>, storageDiags |-> {},
   j |-> 0, result |-> <<>>]

NoEnvelope == /\ envOp = "none" /\ env = NewEnvelope(<<>>, <<>>) /\ call = NoCall

\* no Reconstructor at work
NoRetry == [pc |-> "none"]

NoRng == [pc |-> "none"]

NoParams == [pc |-> "none"]

NoData == [pc |-> "none"]

NoRecon == /\ retry = NoRetry /\ rng = NoRng /\ params = NoParams /\ data = NoData

InitProfile ==
  /\ NoEnvelope
  /\ NoRecon
  /\ nReady = 0
  /\ args = NoArgs
  /\ \/ op = "none" /\ prof = EmptyProfile
     \/ /\ op = "given"
        /\ \E N \in 2..MaxStates : \E kind \in [1..(N - 2) -> Kinds] :
             \E E \in {F \in SUBSET Pairs(N) : Connected(N, F)} :
               prof = GivenProfile(N, kind, E)
  /\ prev = prof

\* Profile::Profile (components, alphabet, seq, rowIndex), with its two closing assertions
Construct(components, seq, rowIndex) ==
  /\ op = "none"
  /\ LET P == LeafProfile(components, Alphabet, seq, rowIndex)
     IN /\ prof' = P
        /\ op' = IF assertSeqCoordsConsistent(P) /\ assertAllStatesWaitOrReady(P)
                 THEN "Profile" ELSE "abort"
  /\ args' = [components |-> components, seq |-> seq, row |-> rowIndex]
  /\ prev' = prof
  /\ UNCHANGED <<nReady, envVars, reconVars>>

\* Profile::addReadyStates applied to the current profile
AddReadyStates ==
  /\ op \in {"given", "Profile", "addReadyStates"}
  /\ nReady < MaxApply
  /\ prof' = addReadyStates(prof)
  /\ prev' = prof
  /\ op' = "addReadyStates"
  /\ nReady' = nReady + 1
  /\ UNCHANGED <<args, envVars, reconVars>>

\* three matrices of weights over the alphabet: the identity, one without zeros
\* and one with zeros on the diagonal
SubFamily ==
  << <<<<1, 0>>, <<0, 1>>>>, <<<<2, 1>>, <<1, 1>>>>, <<<<0, 1>>, <<3, 0>>>> >>

\* sub: one matrix for each component
Subs == {[cpt \in 1..MaxCpt |-> SubFamily[((k + cpt) % 3) + 1]] : k \in 0..2}

\* Profile::leftMultiply (sub) applied to a leaf profile or to a given one
LeftMultiply(sub) ==
  /\ op \in {"given", "Profile"}
  /\ prof' = leftMultiply(prof, sub)
  /\ prev' = prof
  /\ op' = "leftMultiply"
  /\ args' = [components |-> args.components, seq |-> args.seq, row |-> args.row,
              sub |-> sub]
  /\ UNCHANGED <<nReady, envVars, reconVars>>

NextProfile ==
  \/ \E components \in 1..MaxCpt, seq \in LeafSeqs, rowIndex \in 0..MaxRow :
       Construct(components, seq, rowIndex)
  \/ AddReadyStates
  \/ \E sub \in Subs : LeftMultiply(sub)

SpecProfile == InitProfile /\ [][NextProfile]_vars

(***************************************************************************)
(* Properties of profiles.                                                 *)
(***************************************************************************)
\* the leaf constructor has run (its assertions passed, or one of them failed)
LeafBuilt == op \in {"Profile", "abort"}

LeafLen == Len(args.seq)

\* the rows mentioned by transition t of P: in its path, in the destination state's
\* path or in the sequence coordinates of either end
RowsOf(P, t) ==
  (DOMAIN t.alignPath) \cup (DOMAIN P.state[t.dest + 1].alignPath)
    \cup (DOMAIN P.state[t.src + 1].seqCoords) \cup (DOMAIN P.state[t.dest + 1].seqCoords)

CoordsConsistent(P) ==
  \A i \in 1..Len(P.trans) :
    LET t == P.trans[i]
        src == P.state[t.src + 1]
        dest == P.state[t.dest + 1]
    IN \A r \in RowsOf(P, t) :
         /\ r \in DOMAIN dest.seqCoords
         /\ dest.seqCoords[r] = MapGet(src.seqCoords, r)
                                  + alignPathResiduesInRow(PathGet(t.alignPath, r))
                                  + alignPathResiduesInRow(PathGet(dest.alignPath, r))

\* C1: sequence coordinates are consistent in every profile the code builds: the leaf
\* constructor always succeeds with a consistent profile, and addReadyStates of a
\* consistent profile is consistent (for every transition and every row it mentions,
\* destCoords[r] = srcCoords[r] + residues(transPath[r]) + residues(destStatePath[r])).
C1_SeqCoordsConsistent ==
  /\ LeafBuilt => op = "Profile" /\ CoordsConsistent(prof)
  /\ (op = "addReadyStates" /\ CoordsConsistent(prev)) => CoordsConsistent(prof)

\* a state was split by the last addReadyStates and some transition carries residues
C1_Witness ==
  /\ op = "addReadyStates"
  /\ CoordsConsistent(prev)
  /\ Len(prof.state) > Len(prev.state)
  /\ \E i \in 1..Len(prof.trans) : prof.trans[i].alignPath # EmptyMap

TopoSorted(P) ==
  /\ Len(P.state) >= 2
  /\ \A i \in 1..Len(P.trans) :
       /\ P.trans[i].src \in 0..(Len(P.state) - 1)
       /\ P.trans[i].dest \in 0..(Len(P.state) - 1)
       /\ P.trans[i].src < P.trans[i].dest
  /\ P.state[1].in = <<>>
  /\ \A i \in 1..Len(P.trans) : P.trans[i].dest # 0
  /\ P.state[Len(P.state)].nullOut = <<>>
  /\ P.state[Len(P.state)].absorbOut = <<>>
  /\ \A i \in 1..Len(P.trans) : P.trans[i].src # Len(P.state) - 1

\* C2: topological order is an invariant of profiles: after leaf construction, and after
\* addReadyStates of a toposorted profile, every transition has src < dest, START is
\* state 0 with no incoming transition and END is the last state with no outgoing one.
C2_TopologicalOrder ==
  /\ LeafBuilt =>
       /\ op = "Profile"
       /\ TopoSorted(prof)
       /\ prof.state[1].name = "START"
       /\ prof.state[Len(prof.state)].name = "END"
  /\ (op = "addReadyStates" /\ TopoSorted(prev)) =>
       /\ TopoSorted(prof)
       /\ prof.state[1].name \in {prev.state[1].name, prev.state[1].name \o WaitStateSuffix}
       /\ prof.state[Len(prof.state)] = prev.state[Len(prev.state)]

\* addReadyStates has split two states of a toposorted profile, START among them
C2_Witness ==
  /\ op = "addReadyStates"
  /\ TopoSorted(prev)
  /\ Len(prof.state) = Len(prev.state) + 2
  /\ needsReadyState(prev.state[1])

\* C3: after addReadyStates every state of the result is exactly one of Wait or Ready,
\* so that assertAllStatesWaitOrReady succeeds on the result.
C3_WaitXorReady ==
  op = "addReadyStates" =>
    /\ \A i \in 1..Len(prof.state) : isWait(prof.state[i]) # isReady(prof.state[i])
    /\ assertAllStatesWaitOrReady(prof)

\* the profile addReadyStates was applied to had a state that was neither, an absorbing one
C3_Witness ==
  /\ op = "addReadyStates"
  /\ \E i \in 1..Len(prev.state) : needsReadyState(prev.state[i]) /\ ~isNull(prev.state[i])

\* C4: addReadyStates is idempotent: a second application returns the profile unchanged
\* (states, their order, names, seqCoords, transition lists, and the transitions).
C4_Idempotent ==
  (op = "addReadyStates" /\ nReady >= 2) => prof = prev

\* the second application ran on a profile whose START had been split by the first
C4_Witness ==
  /\ op = "addReadyStates"
  /\ nReady = 2
  /\ prof.state[1].name = "START" \o WaitStateSuffix
  /\ Len(prof.state) >= 5

\* the sum of lpTrans along the path that follows, from state s, the only outgoing
\* transition of each state up to the last state
LogProd(a, b) == IF a = NegInf \/ b = NegInf THEN NegInf ELSE a + b

RECURSIVE ChainLogProb(_, _)
ChainLogProb(P, s) ==
  IF s >= Len(P.state) - 1 THEN 0
  ELSE LET out == P.state[s + 1].nullOut \o P.state[s + 1].absorbOut
       IN IF out = <<>> \/ P.trans[out[1] + 1].dest <= s THEN NegInf
          ELSE LogProd(P.trans[out[1] + 1].lpTrans, ChainLogProb(P, P.trans[out[1] + 1].dest))

\* C5: for a leaf sequence of length L >= 0 the constructor yields L+2 states and L+1
\* transitions forming one chain: transition k goes from state k to state k+1 with
\* lpTrans = 0, state 0 is START, state L+1 is END, and the only START-to-END path
\* has total transition log-probability 0.
C5_LeafChain ==
  LeafBuilt =>
    /\ op = "Profile"
    /\ Len(prof.state) = LeafLen + 2
    /\ Len(prof.trans) = LeafLen + 1
    /\ \A k \in 0..LeafLen :
         /\ prof.trans[k + 1].src = k
         /\ prof.trans[k + 1].dest = k + 1
         /\ prof.trans[k + 1].lpTrans = 0
         /\ prof.state[k + 1].nullOut \o prof.state[k + 1].absorbOut = <<k>>
         /\ prof.state[k + 2].in = <<k>>
    /\ prof.state[1].name = "START"
    /\ prof.state[1].in = <<>>
    /\ prof.state[LeafLen + 2].name = "END"
    /\ prof.state[LeafLen + 2].nullOut \o prof.state[LeafLen + 2].absorbOut = <<>>
    /\ ChainLogProb(prof, 0) = 0

\* a leaf of the greatest length has been built
C5_Witness == op = "Profile" /\ LeafLen = MaxLen /\ Len(prof.trans) = MaxLen + 1

\* C6: in a leaf profile each chain state s_i (1 <= i <= L) is absorbing and, in every
\* mixture component, its log-emission is 0 at the token of residue i and minus
\* infinity at every other token, except that a wildcard gives 0 at every token; START
\* and END are null states with no emission table.
C6_LeafEmissions ==
  LeafBuilt =>
    /\ op = "Profile"
    /\ \A i \in 1..LeafLen :
         /\ ~isNull(prof.state[i + 1])
         /\ DOMAIN prof.state[i + 1].lpAbsorb = 1..args.components
         /\ \A cpt \in 1..args.components :
              /\ DOMAIN prof.state[i + 1].lpAbsorb[cpt] = 1..Len(Alphabet)
              /\ \A a \in 1..Len(Alphabet) :
                   prof.state[i + 1].lpAbsorb[cpt][a] =
                     IF args.seq[i] = wildcardChar \/ args.seq[i] = Alphabet[a]
                     THEN 0 ELSE NegInf
    /\ isNull(prof.state[1]) /\ prof.state[1].lpAbsorb = <<>>
    /\ isNull(prof.state[LeafLen + 2]) /\ prof.state[LeafLen + 2].lpAbsorb = <<>>

\* a leaf with a wildcard and an ordinary residue, under several components
C6_Witness ==
  /\ op = "Profile"
  /\ args.components = MaxCpt
  /\ \E i, j \in 1..LeafLen : args.seq[i] = wildcardChar /\ args.seq[j] = Alphabet[2]

\* C7: in a leaf profile for row r, seqCoords[r] is 0 at START, i at s_i and L at END;
\* each s_i has an align path of exactly one column with bit 1 for row r, START and END
\* have empty align paths, and every transition has an empty align path.
C7_LeafCoordsAndPaths ==
  LeafBuilt =>
    /\ op = "Profile"
    /\ prof.state[1].seqCoords = MapPut(EmptyMap, args.row, 0)
    /\ prof.state[LeafLen + 2].seqCoords = MapPut(EmptyMap, args.row, LeafLen)
    /\ \A i \in 1..LeafLen :
         /\ prof.state[i + 1].seqCoords = MapPut(EmptyMap, args.row, i)
         /\ prof.state[i + 1].alignPath = MapPut(EmptyMap, args.row, <<TRUE>>)
    /\ prof.state[1].alignPath = EmptyMap
    /\ prof.state[LeafLen + 2].alignPath = EmptyMap
    /\ \A k \in 1..Len(prof.trans) : prof.trans[k].alignPath = EmptyMap

\* a leaf of at least two residues on a row other than row 0
C7_Witness == op = "Profile" /\ LeafLen >= 2 /\ args.row = MaxRow /\ args.row > 0

(***************************************************************************)
(* The envelope of a pair of sequences: envOp is the initialisation that   *)
(* has run on env, call its arguments and what it went through (path: the  *)
(* full or the sparse branch; overrun: the scan left x; matches: the pairs *)
(* it counted; the threshold variables of the bucket loop as it ended;     *)
(* admitted: the counts of the buckets the loop took, in order).           *)
(***************************************************************************)
KmerLens == {1, 2, 3}

BandSizes == {0, 2}

\* kmerThreshold, cellSize, maxSize: under a fixed threshold, with and without room
\* for the whole matrix; under a memory-derived one, with budgets from none to all
Budgets ==
  {<<t, 1, m>> : t \in {0, 2}, m \in {0, 100}}
    \cup {<<-1, c, m>> : c \in {1, 2}, m \in {0, 8, 20, 36}}

\* the sequences x: all over the two residues of the alphabet
EnvXSeqs == UNION {[1..n -> {Alphabet[1], Alphabet[2]}] : n \in 0..MaxXLen}

\* the sequences y: the prefixes of one sequence with both residues and a wildcard
EnvYChar(j) == IF j % 4 = 3 THEN Alphabet[2] ELSE IF j % 5 = 0 THEN wildcardChar ELSE Alphabet[1]

EnvYSeqs == {[j \in 1..n |-> EnvYChar(j)] : n \in 0..MaxYLen}

NoProfile ==
  /\ op = "none" /\ prof = EmptyProfile /\ prev = EmptyProfile /\ args = NoArgs /\ nReady = 0

InitEnv ==
  /\ NoProfile
  /\ NoRecon
  /\ envOp = "new"
  /\ call = NoCall
  /\ \E x \in EnvXSeqs, y \in EnvYSeqs : env = NewEnvelope(x, y)

\* DiagonalEnvelope::initFull called on a new envelope
InitFull ==
  /\ envOp = "new"
  /\ LET r == initFull(env)
     IN /\ env' = r.env
        /\ envOp' = IF r.ok THEN "initFull" ELSE "abort"
  /\ call' = [call EXCEPT !.path = "full"]
  /\ UNCHANGED <<profVars, reconVars>>

\* what the scan of x can come to: the pairs it counts; when it leaves x it reads
\* memory that is not the sequence's, and either faults or goes on, finding
\* nothing there or one more pair at its first start position outside x
ScanOutcomes(E, kmerLen) ==
  LET inside == Matches(E.px, E.py, kmerLen, Alphabet, ScanInRange(E.xLen, kmerLen))
      first  == Max(0, E.xLen - kmerLen + 1)
      yTok   == unvalidatedTokens(E.py, Alphabet)
      ys     == {j \in 0..(E.yLen - kmerLen) : kmerValid(kmerLen, yTok, j)}
  IN IF ~ScanOverruns(E.xLen, kmerLen)
     THEN {[fault |-> FALSE, matches |-> inside]}
     ELSE {[fault |-> TRUE, matches |-> {}], [fault |-> FALSE, matches |-> inside]}
          \cup {[fault |-> FALSE, matches |-> inside \cup {<<first, j>>}] : j \in ys}

\* DiagonalEnvelope::initSparse called on a new envelope
InitSparse(kmerLen, bandSize, kmerThreshold, cellSize, maxSize) ==
  /\ envOp = "new"
  /\ LET c0 == [call EXCEPT !.kmerLen = kmerLen, !.bandSize = bandSize,
                            !.kmerThreshold = kmerThreshold, !.cellSize = cellSize,
                            !.maxSize = maxSize]
     IN IF UseFull(env, kmerLen, kmerThreshold, cellSize, maxSize)
        THEN LET r == initFull(env)
             IN /\ env' = r.env
                /\ envOp' = IF r.ok THEN "initSparse" ELSE "abort"
                /\ call' = [c0 EXCEPT !.path = "full"]
        ELSE \E o \in ScanOutcomes(env, kmerLen) :
               IF o.fault
               THEN /\ envOp' = "fault"
                    /\ env' = env
                    /\ call' = [c0 EXCEPT !.path = "sparse", !.overrun = TRUE]
               ELSE LET st == SparseDiagonals(env, o.matches, bandSize, kmerThreshold,
                                              cellSize, maxSize)
                        r  == initStorage([env EXCEPT !.diagonals = SortedSeq(st.diags)])
                    IN /\ env' = r.env
                       /\ envOp' = IF r.ok THEN "initSparse" ELSE "abort"
                       /\ call' = [c0 EXCEPT !.path = "sparse",
                                             !.overrun = ScanOverruns(env.xLen, kmerLen),
                                             !.matches = o.matches,
                                             !.threshold = st.threshold,
                                             !.foundThreshold = st.foundThreshold,
                                             !.nPastThreshold = st.nPastThreshold,
                                             !.admitted = st.admitted,
                                             !.storageDiags = st.storageDiags]
  /\ UNCHANGED <<profVars, reconVars>>

\* DiagonalEnvelope::forward_i (j) called on an initialised envelope; call keeps
\* the argument and the vector returned
ForwardI(j) ==
  /\ envOp \in {"initFull", "initSparse"}
  /\ envOp' = "forward_i"
  /\ call' = [NoCall EXCEPT !.j = j, !.result = forward_i(env, j)]
  /\ UNCHANGED <<env, profVars, reconVars>>

\* DiagonalEnvelope::reverse_i (j) called on an initialised envelope
ReverseI(j) ==
  /\ envOp \in {"initFull", "initSparse"}
  /\ envOp' = "reverse_i"
  /\ call' = [NoCall EXCEPT !.j = j, !.result = reverse_i(env, j)]
  /\ UNCHANGED <<env, profVars, reconVars>>

NextEnv ==
  \/ InitFull
  \/ \E kmerLen \in KmerLens, bandSize \in BandSizes, b \in Budgets :
       InitSparse(kmerLen, bandSize, b[1], b[2], b[3])
  \/ \E j \in 0..env.yLen : ForwardI(j)
  \/ \E j \in 0..env.yLen : ReverseI(j)

SpecEnv == InitEnv /\ [][NextEnv]_vars

\* the initialisation has run to its end
EnvReady == envOp \in {"initFull", "initSparse"}

(***************************************************************************)
(* Properties of envelopes.                                                *)
(***************************************************************************)
Ascending(q) == \A m, n \in 1..Len(q) : m < n => q[m] < q[n]

\* C8: after any envelope initialisation (initFull, or initSparse, each followed by
\* initStorage) every compute diagonal is also a storage diagonal, and the storage
\* diagonals are exactly the compute diagonals and their neighbours d-1 and d+1.
C8_StorageIsHalo ==
  EnvReady =>
    /\ Range(env.diagonals) \subseteq Range(env.storageDiagonals)
    /\ Range(env.storageDiagonals) =
         {d + k : d \in Range(env.diagonals), k \in {-1, 0, 1}}
    /\ Ascending(env.diagonals) /\ Ascending(env.storageDiagonals)

\* a sparse envelope whose compute diagonals fall in two separate bands
C8_Witness ==
  /\ envOp = "initSparse"
  /\ call.path = "sparse"
  /\ \E d, e \in Range(env.diagonals) :
       /\ d + 1 \notin Range(env.diagonals)
       /\ d + 2 \notin Range(env.storageDiagonals)
       /\ e > d + 2

\* C9 as stated: diagonal 0 is always present, for every pair of sequence lengths
\* xLen, yLen >= 0 and every parameter setting: after initFull or initSparse it
\* belongs to diagonals and to storageDiagonals.
C9_ZeroAlwaysPresent ==
  EnvReady => 0 \in Range(env.diagonals) /\ 0 \in Range(env.storageDiagonals)

\* C9 amended: diagonal 0 is present after initFull or initSparse, whatever the
\* parameters, for every pair of sequence lengths xLen, yLen >= 1.
C9_ZeroPresentNonEmpty ==
  (EnvReady /\ env.xLen >= 1 /\ env.yLen >= 1) =>
    0 \in Range(env.diagonals) /\ 0 \in Range(env.storageDiagonals)

\* a sparse envelope of non-empty sequences in which no k-mer match seeded diagonal 0
C9_Witness ==
  /\ envOp = "initSparse"
  /\ call.path = "sparse"
  /\ env.xLen >= 1 /\ env.yLen >= 1
  /\ call.matches # {}
  /\ \A m \in call.matches : get_diag(m[1], m[2]) # 0
  /\ Len(env.diagonals) > 1

RECURSIVE SumUpTo(_, _)
\* f[0] + ... + f[n-1]
SumUpTo(f, n) == IF n <= 0 THEN 0 ELSE f[n - 1] + SumUpTo(f, n - 1)

\* positions (from 0) in storageDiagonals of the storage diagonals that intersect row j
StoredAt(E, j) ==
  {n \in 0..(Len(E.storageDiagonals) - 1) : intersects(E, j, E.storageDiagonals[n + 1])}

\* C10: after initStorage, for every j in 0..yLen, storageSize[j] is the number of
\* storage diagonals that intersect row j, cumulStorageSize[j] is the sum of
\* storageSize[j'] over j' < j, totalStorageSize is the sum of storageSize over all
\* j, and storageOffset[j] is the storage index of the lowest storage diagonal that
\* intersects j, or -1 when none does.
C10_StorageLayout ==
  EnvReady =>
    /\ DOMAIN env.storageSize = 0..env.yLen
    /\ DOMAIN env.cumulStorageSize = 0..env.yLen
    /\ DOMAIN env.storageOffset = 0..env.yLen
    /\ \A j \in 0..env.yLen :
         /\ env.storageSize[j] = Cardinality(StoredAt(env, j))
         /\ env.cumulStorageSize[j] = SumUpTo(env.storageSize, j)
         /\ env.storageOffset[j] =
              IF StoredAt(env, j) = {} THEN -1
              ELSE CHOOSE n \in StoredAt(env, j) : \A m \in StoredAt(env, j) : n <= m
    /\ env.totalStorageSize = SumUpTo(env.storageSize, env.yLen + 1)

\* a sparse envelope with a row that no storage diagonal intersects and a row whose
\* lowest storage diagonal is not the first one
C10_Witness ==
  /\ envOp = "initSparse"
  /\ call.path = "sparse"
  /\ \E j \in 0..env.yLen : env.storageSize[j] = 0 /\ env.storageOffset[j] = -1
  /\ \E j \in 1..env.yLen : env.storageSize[j] >= 2 /\ env.storageOffset[j] >= 1

(***************************************************************************)
(* C11: the full envelope.                                                 *)
(***************************************************************************)
\* initFull has filled diagonals, on a direct call or from within initSparse
FullBuilt == call.path = "full" /\ envOp # "new"

\* C11 as stated: the full envelope produced by initFull consists of all diagonals
\* d in the closed range [-yLen, xLen], so diagonals has exactly xLen + yLen + 1
\* members.
C11_FullRangeAsStated ==
  FullBuilt =>
    /\ Range(env.diagonals) = (0 - env.yLen)..env.xLen
    /\ Len(env.diagonals) = env.xLen + env.yLen + 1

\* C11 amended: the full envelope produced by initFull consists of all diagonals d
\* in the closed range [1 - yLen, xLen - 1], in ascending order, so diagonals has
\* exactly xLen + yLen - 1 members when a sequence is non-empty, and none when both
\* are empty.
C11_FullRange ==
  FullBuilt =>
    /\ Range(env.diagonals) = (1 - env.yLen)..(env.xLen - 1)
    /\ Len(env.diagonals) = Max(0, env.xLen + env.yLen - 1)
    /\ Ascending(env.diagonals)
    /\ envOp # "abort"

\* a full envelope of two sequences of different lengths, both longer than one residue
C11_Witness ==
  /\ envOp = "initFull"
  /\ env.xLen >= 2 /\ env.yLen >= 2 /\ env.xLen # env.yLen
  /\ Len(env.diagonals) = env.xLen + env.yLen - 1

(***************************************************************************)
(* C12, C13: when initSparse returns the full envelope.                    *)
(***************************************************************************)
\* initSparse has been called and has come to an end, normal or not
SparseCalled == call.kmerLen > 0 /\ envOp # "new"

\* the matrix of all cells fits in the budget
FitsBudget == env.xLen * env.yLen * call.cellSize < call.maxSize

\* the envelope is the full one, built without a scan of the k-mers
IsFullEnvelope ==
  /\ call.path = "full"
  /\ envOp = "initSparse"
  /\ call.matches = {} /\ ~call.overrun
  /\ Range(env.diagonals) = (1 - env.yLen)..(env.xLen - 1)

\* C12 as stated: whenever xLen*yLen*cellBytes is below the memory budget maxSize,
\* initSparse returns the full envelope, in both threshold modes (fixed and
\* memory-bound) and regardless of k-mer matches.
C12_FullWhenFitsAsStated ==
  (SparseCalled /\ FitsBudget) => call.path = "full"

\* C12 amended: in memory-bound mode (kmerThreshold < 0), whenever
\* xLen*yLen*cellBytes is below the memory budget maxSize, initSparse returns the
\* full envelope, regardless of k-mer matches.
C12_FullWhenFits ==
  (SparseCalled /\ call.kmerThreshold < 0 /\ FitsBudget) => IsFullEnvelope

\* memory-bound mode, a matrix that fits, and sequences that share k-mers off the
\* main diagonal
C12_Witness ==
  /\ SparseCalled /\ call.kmerThreshold < 0 /\ FitsBudget
  /\ envOp = "initSparse"
  /\ \E m \in Matches(env.px, env.py, call.kmerLen, Alphabet,
                      ScanInRange(env.xLen, call.kmerLen)) : m[1] # m[2]
  /\ env.xLen >= 3 /\ env.yLen >= 3

\* a sequence is shorter than 2 * (kmerLen + kmerThreshold), in the integers
TooShort ==
  \/ env.xLen < MIN_KMERS_FOR_SPARSE_ENVELOPE * (call.kmerLen + call.kmerThreshold)
  \/ env.yLen < MIN_KMERS_FOR_SPARSE_ENVELOPE * (call.kmerLen + call.kmerThreshold)

C13_ShortSparseReached ==
  /\ envOp = "initSparse" /\ call.kmerThreshold < 0 /\ TooShort
  /\ call.path = "sparse" /\ ~call.overrun
  /\ env.xLen >= call.kmerLen /\ env.yLen >= call.kmerLen
  /\ env.diagonals = <<0>>

(***************************************************************************)
(* C14, C15: the memory budget.                                            *)
(***************************************************************************)
\* the bytes of the cells that initStorage lays out
StorageBytes == env.totalStorageSize * call.cellSize

\* the bytes the loop of initSparse reckons for the storage diagonals
DiagonalBytes == Len(env.storageDiagonals) * Min(env.xLen, env.yLen) * call.cellSize

\* C14: maxSize is a hard upper bound on envelope storage: in memory-bound mode
\* (kmerThreshold < 0), for all sequence lengths, band sizes and k-mer match
\* patterns, totalStorageSize * cellSize <= maxSize, and likewise
\* storageDiagonals.size() * min(xLen,yLen) * cellSize <= maxSize.
C14_BudgetIsHardBound ==
  (envOp = "initSparse" /\ SparseCalled /\ call.kmerThreshold < 0) =>
    StorageBytes <= call.maxSize /\ DiagonalBytes <= call.maxSize

\* the budget is exceeded although the loop admitted a bucket within it
C14_OverBudgetAfterAdmission ==
  /\ envOp = "initSparse" /\ call.kmerThreshold < 0
  /\ call.path = "sparse" /\ ~call.overrun
  /\ call.foundThreshold /\ call.admitted # <<>>
  /\ Cardinality(call.storageDiags) * Min(env.xLen, env.yLen) * call.cellSize < call.maxSize
  /\ DiagonalBytes > call.maxSize
  /\ StorageBytes > call.maxSize

\* memory-bound mode, the sparse path, and no bucket admitted by the loop
NothingAdmitted ==
  /\ SparseCalled /\ call.kmerThreshold < 0
  /\ call.path = "sparse"
  /\ ~call.foundThreshold

\* the envelope of diagonal 0 and its two neighbours
IsMinimalEnvelope ==
  /\ envOp = "initSparse"
  /\ env.diagonals = <<0>>
  /\ env.storageDiagonals = <<-1, 0, 1>>

\* C15: in memory-bound mode, when no count bucket can be admitted within maxSize
\* (foundThreshold stays false), initialisation still completes without error and
\* the envelope is the minimal one: compute diagonals {0} and storage diagonals
\* {-1, 0, +1}.
C15_FallbackCompletes == NothingAdmitted => IsMinimalEnvelope

\* the same for the calls whose scan stays within x and whose y is not empty: there
\* the fallback does complete, with the minimal envelope
C15_FallbackWhenScannable ==
  (NothingAdmitted /\ env.xLen >= call.kmerLen /\ env.yLen >= 1) => IsMinimalEnvelope

\* the fallback ends in the bounds check of storageIndex, after a scan that stayed
\* within x: y is empty, so storage diagonal -1 has index yLen - 1 = -1
C15_FallbackAborts ==
  /\ NothingAdmitted /\ ~call.overrun
  /\ envOp = "abort"
  /\ env.yLen = 0 /\ env.xLen >= call.kmerLen

\* the fallback taken although the sequences share k-mers: the first bucket is
\* already over the budget
C15_FallbackWithSeeds ==
  /\ NothingAdmitted /\ IsMinimalEnvelope
  /\ call.matches # {} /\ call.maxSize > 0

(***************************************************************************)
(* C16: forward_i and reverse_i.                                           *)
(***************************************************************************)
\* the x-coordinates at which a compute diagonal meets row j
ComputeCoords(E, j) == {d + j : d \in {e \in Range(E.diagonals) : intersects(E, j, e)}}

\* C16: for every j, forward_i(j) returns, in strictly ascending order, exactly the
\* x-coordinates i of the compute diagonals that intersect row j (one per such
\* diagonal, none from halo-only storage diagonals), and reverse_i(j) is that same
\* sequence reversed.
C16_ForwardReverse ==
  /\ envOp = "forward_i" =>
       /\ call.result = SortedSeq(ComputeCoords(env, call.j))
       /\ \A n \in 1..(Len(call.result) - 1) : call.result[n] < call.result[n + 1]
       /\ \A n \in 1..Len(call.result) :
            /\ call.result[n] >= 1 /\ call.result[n] <= env.xLen
            /\ call.result[n] - call.j \in Range(env.diagonals)
  /\ envOp = "reverse_i" =>
       /\ call.result = Reverse(SortedSeq(ComputeCoords(env, call.j)))
       /\ \A n \in 1..(Len(call.result) - 1) : call.result[n] > call.result[n + 1]

\* reverse_i on a row of a sparse envelope that several compute diagonals and at
\* least one halo-only storage diagonal intersect
C16_Witness ==
  /\ envOp = "reverse_i"
  /\ Len(call.result) >= 2
  /\ Len(env.diagonals) < env.xLen + env.yLen - 1
  /\ \E d \in Range(env.storageDiagonals) \ Range(env.diagonals) : intersects(env, call.j, d)

(***************************************************************************)
(* The Forward retry loop of Reconstructor::reconstruct at one internal    *)
(* node.  retry.maxDist is the loop's int maxDist, retry.attempts the      *)
(* ForwardMatrix constructions made so far: for each the value of maxDist, *)
(* whether the guide envelope was without constraint, and whether lpEnd    *)
(* was finite.                                                             *)
(***************************************************************************)
\* the greatest int
MaxInt == 2147483647

MinInt == (0 - MaxInt) - 1

\* the greatest number of columns of the guide alignment
MaxCols == 4

\* the greatest number of ForwardMatrix constructions followed
MaxAttempts == 5

\* maxDistanceFromGuide: atoi of the argument, any int
RetryBands == {-2, -1, 0, 1, 2, 3, 1073741824}

\* dataset.guide: empty, or an alignment of 0..MaxCols columns
Guides == {[empty |-> TRUE, cols |-> 0]} \cup {[empty |-> FALSE, cols |-> c] : c \in 0..MaxCols}

\* GuideAlignmentEnvelope(): no constraint; GuideAlignmentEnvelope (guide, .., maxDist):
\* no constraint when maxDist < 0
EnvelopeDisabled(guideEmpty, maxDist) == guideEmpty \/ maxDist < 0

\* maxDist*2 is not an int
DoublingOverflows(maxDist) == maxDist > MaxInt \div 2

\* faulty variant of NextMaxDist: the constraint is removed as soon as the doubled
\* band reaches the number of columns
NextMaxDist_AtCols(maxDist, cols) ==
  IF DoublingOverflows(maxDist) THEN {-1, MinInt + 2 * (maxDist - (MaxInt \div 2 + 1))}
  ELSE IF maxDist * 2 >= cols THEN {-1}
  ELSE {maxDist * 2}

\* the values maxDist can have after a failed attempt with maxDist >= 0: -1 when
\* maxDist*2 > alignPathColumns(guide), else maxDist*2; when maxDist*2 overflows the
\* test can go either way, and the product is the wrapped one
NextMaxDist(maxDist, cols) ==
  IF DoublingOverflows(maxDist) THEN {-1, MinInt + 2 * (maxDist - (MaxInt \div 2 + 1))}
  ELSE IF maxDist * 2 > cols THEN {-1}
  ELSE {maxDist * 2}

InitRetry ==
  /\ NoProfile
  /\ envOp = "none" /\ env = NewEnvelope(<<>>, <<>>) /\ call = NoCall
  /\ rng = NoRng /\ params = NoParams /\ data = NoData
  /\ \E b \in RetryBands, g \in Guides :
       retry = [pc |-> "loop", guideEmpty |-> g.empty, guideCols |-> g.cols,
                maxDist |-> b, attempts |-> <<>>]

\* one turn of while (true): the ForwardMatrix is built, lpEnd is finite or not
Attempt(lpFinite) ==
  /\ retry.pc = "loop"
  /\ Len(retry.attempts) < MaxAttempts
  /\ LET a == [maxDist |-> retry.maxDist,
               disabled |-> EnvelopeDisabled(retry.guideEmpty, retry.maxDist),
               lpFinite |-> lpFinite]
         r == [retry EXCEPT !.attempts = Append(@, a)]
     IN IF lpFinite THEN retry' = [r EXCEPT !.pc = "accepted"]
        ELSE IF retry.maxDist < 0 THEN retry' = [r EXCEPT !.pc = "abort"]
        ELSE \E m \in NextMaxDist(retry.maxDist, retry.guideCols) :
               retry' = [r EXCEPT !.maxDist = m]
  /\ UNCHANGED <<profVars, envVars, rng, params, data>>

NextRetry == \E lpFinite \in BOOLEAN : Attempt(lpFinite)

SpecRetry == InitRetry /\ [][NextRetry]_vars

\* the node's loop has been entered
RetryBegun == retry.pc \in {"loop", "accepted", "abort"}

\* C17: after a Forward attempt with guide band B >= 0 that yields lpEnd = -infinity,
\* the next attempt uses band 2B if 2B does not exceed the guide's column count and
\* otherwise runs with the guide constraint disabled; the zero-likelihood abort is
\* raised only after an attempt made with the guide constraint disabled has itself
\* returned -infinity; the first attempt with finite lpEnd is accepted and no
\* further attempt is made.
C17_RetryPolicy ==
  RetryBegun =>
    LET as == retry.attempts
        n  == Len(as)
    IN /\ \A k \in 1..(n - 1) :
            /\ ~as[k].lpFinite
            /\ ~as[k].disabled =>
                 IF ~DoublingOverflows(as[k].maxDist) /\ 2 * as[k].maxDist <= retry.guideCols
                 THEN ~as[k + 1].disabled /\ as[k + 1].maxDist = 2 * as[k].maxDist
                 ELSE as[k + 1].disabled
       /\ retry.pc = "abort" => n >= 1 /\ as[n].disabled /\ ~as[n].lpFinite
       /\ retry.pc = "accepted" => n >= 1 /\ as[n].lpFinite
       /\ (n >= 1 /\ as[n].lpFinite) => retry.pc = "accepted"
       /\ (n >= 1 /\ ~as[n].lpFinite /\ ~as[n].disabled) => retry.pc = "loop"
       /\ retry.pc = "loop" => retry.maxDist =
            IF n = 0 \/ as[n].disabled THEN retry.maxDist
            ELSE IF ~DoublingOverflows(as[n].maxDist) /\ 2 * as[n].maxDist <= retry.guideCols
                 THEN 2 * as[n].maxDist ELSE retry.maxDist

\* lpEnd is -infinity at band B >= 1 and finite at band 2B: two attempts, accepted
C17_Witness ==
  /\ retry.pc = "accepted"
  /\ Len(retry.attempts) = 2
  /\ ~retry.attempts[1].disabled /\ retry.attempts[1].maxDist >= 1
  /\ ~retry.attempts[1].lpFinite
  /\ ~retry.attempts[2].disabled
  /\ retry.attempts[2].maxDist = 2 * retry.attempts[1].maxDist
  /\ retry.attempts[2].lpFinite

\* the abort, reached from a guided band by way of an attempt without the constraint
C17_AbortReached ==
  /\ retry.pc = "abort"
  /\ Len(retry.attempts) >= 2
  /\ ~retry.attempts[1].disabled

(***************************************************************************)
(* C18: leftMultiply.                                                      *)
(***************************************************************************)
\* the sum over d of sub[c][d] * w[d], in weights
RECURSIVE WeightSum(_, _, _)
WeightSum(subRow, lpa, d) ==
  IF d = 0 THEN 0 ELSE WeightSum(subRow, lpa, d - 1) + subRow[d] * exp(lpa[d])

\* C18: leftMultiply returns a copy in which only lpAbsorb of absorbing states
\* differs from the original: the number and order of states and transitions, every
\* transition, every state's align path, seqCoords and in/out lists, and all null
\* states are unchanged; each new emission entry [cpt][c] is the log-sum over d of
\* log(sub[cpt][c][d]) + original lpAbsorb[cpt][d], computed from the original (not
\* the partially updated) table, once per state.
C18_LeftMultiplyFrame ==
  op = "leftMultiply" =>
    /\ prof = [prev EXCEPT !.state = prof.state]
    /\ prof.trans = prev.trans
    /\ DOMAIN prof.state = DOMAIN prev.state
    /\ \A i \in DOMAIN prev.state :
         /\ prof.state[i] = [prev.state[i] EXCEPT !.lpAbsorb = prof.state[i].lpAbsorb]
         /\ isNull(prev.state[i]) => prof.state[i] = prev.state[i]
         /\ DOMAIN prof.state[i].lpAbsorb = DOMAIN prev.state[i].lpAbsorb
         /\ \A cpt \in DOMAIN prev.state[i].lpAbsorb :
              /\ DOMAIN prof.state[i].lpAbsorb[cpt] = 1..prev.alphSize
              /\ \A c \in 1..prev.alphSize :
                   prof.state[i].lpAbsorb[cpt][c] =
                     log(WeightSum(args.sub[cpt][c], prev.state[i].lpAbsorb[cpt], prev.alphSize))

\* a leaf of several residues and components multiplied by matrices that are not
\* the identity: some emission changes, and some entry becomes the sum of two terms
C18_Witness ==
  /\ op = "leftMultiply"
  /\ prev.components = MaxCpt
  /\ Len(prev.state) >= 4
  /\ \E i \in DOMAIN prev.state : \E cpt \in DOMAIN prev.state[i].lpAbsorb :
       /\ prof.state[i].lpAbsorb[cpt] # prev.state[i].lpAbsorb[cpt]
       /\ \E c \in 1..prev.alphSize : exp(prof.state[i].lpAbsorb[cpt][c]) >= 2

(***************************************************************************)
(* The random number generator of the Reconstructor.  rng.gen is the state *)
(* of Reconstructor::generator, rng.runs the record of the reconstruct()   *)
(* calls made so far: for each the dataset (its number of internal nodes   *)
(* below the root) and the numbers drawn for the sampled profiles, in      *)
(* order.  The engine is a linear congruential one with a short period.    *)
(***************************************************************************)
\* the greatest number of internal nodes below the root of a dataset's tree
MaxNodes == 2

\* the greatest number of reconstruct() calls followed
MaxRuns == 2

\* the greatest number of other uses of the generator followed
MaxUses == 2

\* ForwardMatrix::newRNG(): an engine in its default state
newRNG == 1

\* generator.seed (s): the state depends on s alone
seed(g, s) == s % 16

\* one number drawn: the next state, which is also the number
DrawOne(g) == (5 * g + 3) % 16

\* n numbers drawn from state g: the state reached and the numbers, in order
RECURSIVE DrawN(_, _)
DrawN(g, n) ==
  IF n = 0 THEN [gen |-> g, out |-> <<>>]
  ELSE LET r == DrawN(g, n - 1)
       IN [gen |-> DrawOne(r.gen), out |-> Append(r.out, DrawOne(r.gen))]

\* faulty variant of seedGenerator: the generator is left as it is
seedGenerator_Stale(g, rndSeed) == g

\* Reconstructor::seedGenerator: generator = ForwardMatrix::newRNG(); generator.seed (rndSeed)
seedGenerator(g, rndSeed) == seed(newRNG, rndSeed)

\* the numbers that reconstruct() draws on a tree with nNodes internal nodes below
\* the root: sampleProfile draws for profileSamples tracebacks at each of them,
\* unless the profiles are built from posteriors; the root draws nothing
reconstruct(g, rndSeed, usePosteriorsForProfile, profileSamples, nNodes) ==
  LET g0 == IF ~usePosteriorsForProfile THEN seedGenerator(g, rndSeed) ELSE g
  IN IF usePosteriorsForProfile THEN [gen |-> g0, out |-> <<>>]
     ELSE DrawN(g0, nNodes * profileSamples)

Seeds == {0, 1, 7}

InitRng ==
  /\ NoProfile
  /\ envOp = "none" /\ env = NewEnvelope(<<>>, <<>>) /\ call = NoCall
  /\ retry = NoRetry /\ params = NoParams /\ data = NoData
  /\ \E s \in Seeds, n \in 1..2, u \in BOOLEAN :
       rng = [pc |-> "ready", rndSeed |-> s, profileSamples |-> n,
              usePosteriorsForProfile |-> u, gen |-> newRNG, uses |-> 0, runs |-> <<>>]

\* the guide alignment of a dataset is built: seedGenerator(), then the AlignGraph
\* draws from the generator
Prealign(k) ==
  /\ rng.pc = "ready"
  /\ rng.uses < MaxUses
  /\ rng' = [rng EXCEPT !.gen = DrawN(seedGenerator(rng.gen, rng.rndSeed), k).gen,
                        !.uses = @ + 1]
  /\ UNCHANGED <<profVars, envVars, retry, params, data>>

\* Reconstructor::reconstruct (dataset)
Reconstruct(nNodes) ==
  /\ rng.pc = "ready"
  /\ Len(rng.runs) < MaxRuns
  /\ LET r == reconstruct(rng.gen, rng.rndSeed, rng.usePosteriorsForProfile,
                          rng.profileSamples, nNodes)
     IN rng' = [rng EXCEPT !.gen = r.gen,
                           !.runs = Append(@, [nNodes |-> nNodes, before |-> rng.gen,
                                               samples |-> r.out])]
  /\ UNCHANGED <<profVars, envVars, retry, params, data>>

NextRng ==
  \/ \E k \in 1..3 : Prealign(k)
  \/ \E nNodes \in 0..MaxNodes : Reconstruct(nNodes)

SpecRng == InitRng /\ [][NextRng]_vars

\* the first n numbers of the engine seeded with s, written out
RECURSIVE StreamOf(_, _)
StreamOf(s, n) ==
  IF n = 0 THEN <<>>
  ELSE LET t == StreamOf(s, n - 1)
           last == IF n = 1 THEN s % 16 ELSE t[n - 1]
       IN Append(t, (5 * last + 3) % 16)

\* C19: with the same rndSeed, profileSamples, envelope parameters, model and
\* dataset, two executions of reconstruct() consume the same random stream and so
\* choose the same sampled profiles, regardless of how the generator was used
\* before the call (during guide prealignment or a previous reconstruction).
C19_SamplingDeterministic ==
  rng.pc = "ready" =>
    /\ \A i, j \in 1..Len(rng.runs) :
         rng.runs[i].nNodes = rng.runs[j].nNodes => rng.runs[i].samples = rng.runs[j].samples
    /\ \A i \in 1..Len(rng.runs) :
         rng.runs[i].samples =
           IF rng.usePosteriorsForProfile THEN <<>>
           ELSE StreamOf(rng.rndSeed, rng.runs[i].nNodes * rng.profileSamples)

\* two sampling reconstructions of the same dataset, entered with the generator in
\* different states, neither of them the seeded one
C19_Witness ==
  /\ rng.pc = "ready"
  /\ ~rng.usePosteriorsForProfile
  /\ Len(rng.runs) = 2
  /\ rng.runs[1].nNodes = rng.runs[2].nNodes
  /\ Len(rng.runs[1].samples) >= 2
  /\ rng.runs[1].before # rng.runs[2].before
  /\ rng.runs[1].before # rng.rndSeed % 16
  /\ rng.runs[2].before # rng.rndSeed % 16

(***************************************************************************)
(* DiagEnvParams::parseDiagEnvParams.  An argument is a sequence of        *)
(* characters; params.argvec is the deque of arguments still to be read,   *)
(* params.result what the last call came to: "true", "false", or "fail"    *)
(* when a Require stopped the program.                                     *)
(***************************************************************************)
\* the greatest number of arguments on the command line
MaxArgc == 3

DigitChars == <<"0", "1", "2", "3", "4", "5", "6", "7", "8", "9">>

IsDigit(c) == \E i \in 1..10 : DigitChars[i] = c

DigitValue(c) == (CHOOSE i \in 1..10 : DigitChars[i] = c) - 1

\* the digits of s from position i on, read into acc
RECURSIVE atoiDigits(_, _, _)
atoiDigits(s, i, acc) ==
  IF i > Len(s) \/ ~IsDigit(s[i]) THEN acc
  ELSE atoiDigits(s, i + 1, acc * 10 + DigitValue(s[i]))

\* atoi: an optional sign and the digits that follow it; 0 when there are none
atoi(s) ==
  IF s # <<>> /\ s[1] = "-" THEN 0 - atoiDigits(s, 2, 0)
  ELSE IF s # <<>> /\ s[1] = "+" THEN atoiDigits(s, 2, 0)
  ELSE atoiDigits(s, 1, 0)

KMatchBand == <<"-", "k", "m", "a", "t", "c", "h", "b", "a", "n", "d">>

KMatch == <<"-", "k", "m", "a", "t", "c", "h">>

KMatchN == <<"-", "k", "m", "a", "t", "c", "h", "n">>

KMatchMb == <<"-", "k", "m", "a", "t", "c", "h", "m", "b">>

KMatchMax == <<"-", "k", "m", "a", "t", "c", "h", "m", "a", "x">>

KMatchOff == <<"-", "k", "m", "a", "t", "c", "h", "o", "f", "f">>

\* the arguments tried: the six options, one that is not an option, and values
ArgWords ==
  {KMatchBand, KMatch, KMatchN, KMatchMb, KMatchMax, KMatchOff, <<"-", "v">>,
   <<"0">>, <<"1">>, <<"2">>, <<"3">>, <<"4">>, <<"5">>, <<"2", "4">>, <<"3", "2">>,
   <<"3", "3">>, <<"-", "1">>, <<"6", "x">>}

\* getMemorySize(): the bytes of physical memory, 0 when they cannot be found
MemorySizes == {0, 8388608}

\* the defaults of DiagEnvParams::DiagEnvParams
DEFAULT_KMER_LENGTH == 6

DEFAULT_KMER_THRESHOLD == 14

DEFAULT_BAND_SIZE == 24

DefaultParams ==
  [sparse |-> TRUE, autoMemSize |-> TRUE, kmerLen |-> DEFAULT_KMER_LENGTH,
   kmerThreshold |-> DEFAULT_KMER_THRESHOLD, maxSize |-> 0, bandSize |-> DEFAULT_BAND_SIZE]

\* faulty variant of KmerLenInRange: the upper limit is not tested
KmerLenInRange_NoUpper(kmerLen) == kmerLen >= 5

\* Require (kmerLen >= 5 && kmerLen <= 32, ...)
KmerLenInRange(kmerLen) == kmerLen >= 5 /\ kmerLen <= 32

\* atoi(val) << 20
Megabytes(n) == n * 1048576

\* the members of p that the call writes and its result, for argvec and a memory size
parseDiagEnvParams(p, argvec, mem) ==
  IF argvec = <<>> THEN [p |-> p, argvec |-> argvec, result |-> "false"]
  ELSE LET arg == argvec[1]
           hasVal == Len(argvec) > 1
           val == IF hasVal THEN argvec[2] ELSE <<>>
           pop1 == Tail(argvec)
           pop2 == IF hasVal THEN Tail(Tail(argvec)) ELSE <<>>
           fail(q) == [p |-> q, argvec |-> argvec, result |-> "fail"]
       IN IF arg = KMatchBand THEN
            IF ~hasVal THEN fail(p)
            ELSE [p |-> [p EXCEPT !.bandSize = atoi(val)], argvec |-> pop2, result |-> "true"]
          ELSE IF arg = KMatch THEN
            IF ~hasVal THEN fail(p)
            ELSE IF ~KmerLenInRange(atoi(val)) THEN fail([p EXCEPT !.kmerLen = atoi(val)])
            ELSE [p |-> [p EXCEPT !.kmerLen = atoi(val)], argvec |-> pop2, result |-> "true"]
          ELSE IF arg = KMatchN THEN
            IF ~hasVal THEN fail(p)
            ELSE [p |-> [p EXCEPT !.kmerThreshold = atoi(val)], argvec |-> pop2,
                  result |-> "true"]
          ELSE IF arg = KMatchMb THEN
            IF ~hasVal THEN fail(p)
            ELSE LET m0 == Megabytes(atoi(val))
                     m  == IF m0 = 0 THEN mem ELSE m0
                 IN IF m0 = 0 /\ ~(mem > 0) THEN fail([p EXCEPT !.maxSize = mem])
                    ELSE [p |-> [p EXCEPT !.maxSize = m, !.kmerThreshold = -1,
                                          !.autoMemSize = FALSE],
                          argvec |-> pop2, result |-> "true"]
          ELSE IF arg = KMatchMax THEN
            IF ~(mem > 0) THEN fail([p EXCEPT !.maxSize = mem])
            ELSE [p |-> [p EXCEPT !.maxSize = mem, !.kmerThreshold = -1, !.autoMemSize = TRUE],
                  argvec |-> pop1, result |-> "true"]
          ELSE IF arg = KMatchOff THEN
            [p |-> [p EXCEPT !.sparse = FALSE], argvec |-> pop1, result |-> "true"]
          ELSE [p |-> p, argvec |-> argvec, result |-> "false"]

InitParse ==
  /\ NoProfile
  /\ envOp = "none" /\ env = NewEnvelope(<<>>, <<>>) /\ call = NoCall
  /\ retry = NoRetry /\ rng = NoRng /\ data = NoData
  /\ \E n \in 0..MaxArgc : \E argvec \in [1..n -> ArgWords] :
       params = [pc |-> "args", p |-> DefaultParams, argvec |-> argvec,
                 given |-> argvec, result |-> "none"]

\* diagEnvParams.parseDiagEnvParams (argvec), called on what is left of the command
\* line; the caller goes on while the result is true
ParseDiagEnvParams(mem) ==
  /\ params.pc = "args"
  /\ params.result \in {"none", "true"}
  /\ LET r == parseDiagEnvParams(params.p, params.argvec, mem)
     IN params' = [params EXCEPT !.p = r.p, !.argvec = r.argvec, !.given = params.argvec,
                                 !.result = r.result]
  /\ UNCHANGED <<profVars, envVars, retry, rng, data>>

NextParse == \E mem \in MemorySizes : ParseDiagEnvParams(mem)

SpecParse == InitParse /\ [][NextParse]_vars

\* a call has been made on a command line that gives option opt a value
ParsedOption(opt) ==
  /\ params.pc = "args" /\ params.result # "none"
  /\ Len(params.given) > 1 /\ params.given[1] = opt

\* the number written as the value of the option
GivenValue == atoi(params.given[2])

\* C20 as stated: out-of-range envelope parameters are rejected as a fatal
\* configuration error at parse time: a k-mer length outside [5,32] and a band size
\* that is odd or smaller than 2 both make parseDiagEnvParams fail rather than
\* return true.
C20_RejectsOutOfRangeAsStated ==
  /\ (ParsedOption(KMatch) /\ (GivenValue < 5 \/ GivenValue > 32)) => params.result = "fail"
  /\ (ParsedOption(KMatchBand) /\ (GivenValue % 2 = 1 \/ GivenValue < 2))
       => params.result = "fail"

\* C20 amended: a k-mer length outside [5,32] makes parseDiagEnvParams fail at parse
\* time rather than return true, and one within it is accepted; the band size is not
\* checked: whatever its value, odd or smaller than 2 included, parseDiagEnvParams
\* stores it and returns true.
C20_RejectsOutOfRange ==
  /\ ParsedOption(KMatch) =>
       /\ params.result = (IF GivenValue < 5 \/ GivenValue > 32 THEN "fail" ELSE "true")
       /\ params.result = "true" => params.p.kmerLen = GivenValue
  /\ ParsedOption(KMatchBand) =>
       /\ params.result = "true"
       /\ params.p.bandSize = GivenValue
       /\ params.argvec = Tail(Tail(params.given))

\* a k-mer length just above the range is refused
C20_Witness ==
  /\ ParsedOption(KMatch)
  /\ GivenValue = 33
  /\ params.result = "fail"

\* an odd band size below 2 is accepted
C20_OddBandAccepted ==
  /\ ParsedOption(KMatchBand)
  /\ GivenValue = 1
  /\ params.result = "true" /\ params.p.bandSize = 1

(***************************************************************************)
(* Properties of addReadyStates, state by state.                           *)
(***************************************************************************)
\* a state with both null and absorbing outgoing transitions
MixedState(st) == st.nullOut # <<>> /\ st.absorbOut # <<>>

\* the states of P (numbered from 0) that are mixed
MixedStates(P) == {i \in 0..(Len(P.state) - 1) : MixedState(P.state[i + 1])}

\* the number state i of P has once every mixed state before it has been followed
\* by a fresh state
ShiftedIndex(P, i) == i + Cardinality({k \in MixedStates(P) : k < i})

\* C21: addReadyStates splits exactly the mixed states: with m mixed states in the
\* input the output has m more states and m more transitions; the Ready state s' of a
\* mixed state s is numbered immediately after s; s keeps its null outgoing
\* transitions and gains one null transition s -> s' with lpTrans = 0 and an empty
\* align path; s' carries exactly the former absorbing outgoing transitions of s, a
\* copy of its seqCoords and no emission; every other state is unchanged, and the
\* renumbering preserves the relative order of the states.
C21_SplitsMixedStates ==
  op = "addReadyStates" =>
    LET m == Cardinality(MixedStates(prev))
        new(i) == ShiftedIndex(prev, i)
    IN /\ Len(prof.state) = Len(prev.state) + m
       /\ Len(prof.trans) = Len(prev.trans) + m
       /\ \A i, k \in 0..(Len(prev.state) - 1) : i < k => new(i) < new(k)
       /\ \A t \in 1..Len(prev.trans) :
            prof.trans[t] = [prev.trans[t] EXCEPT !.src = new(@), !.dest = new(@)]
       /\ \A i \in 0..(Len(prev.state) - 1) :
            LET old == prev.state[i + 1]
                s   == prof.state[new(i) + 1]
            IN IF ~MixedState(old) THEN s = old
               ELSE LET r    == prof.state[new(i) + 2]
                        last == s.nullOut[Len(s.nullOut)]
                    IN /\ SubSeq(s.nullOut, 1, Len(s.nullOut) - 1) = old.nullOut
                       /\ last >= Len(prev.trans)
                       /\ prof.trans[last + 1].src = new(i)
                       /\ prof.trans[last + 1].dest = new(i) + 1
                       /\ prof.trans[last + 1].lpTrans = 0
                       /\ prof.trans[last + 1].alignPath = EmptyMap
                       /\ s.absorbOut = <<>>
                       /\ s.in = old.in /\ s.lpAbsorb = old.lpAbsorb
                       /\ s.alignPath = old.alignPath /\ s.seqCoords = old.seqCoords
                       /\ r.absorbOut = old.absorbOut
                       /\ r.nullOut = <<>>
                       /\ r.in = <<last>>
                       /\ r.seqCoords = old.seqCoords
                       /\ r.lpAbsorb = <<>>

\* two states were split, one of them absorbing, and an absorbing state that was not
\* split has moved up by two
C21_Witness ==
  /\ op = "addReadyStates"
  /\ Cardinality(MixedStates(prev)) = 2
  /\ \E i \in MixedStates(prev) : ~isNull(prev.state[i + 1])
  /\ \E j \in 0..(Len(prev.state) - 1) :
       /\ ~MixedState(prev.state[j + 1]) /\ ~isNull(prev.state[j + 1])
       /\ ShiftedIndex(prev, j) = j + 2

(***************************************************************************)
(* Properties of the sparse path of initSparse.                            *)
(***************************************************************************)
\* initSparse has gone through the scan and the bucket loop and returned
SparseBuilt == envOp = "initSparse" /\ call.path = "sparse"

\* the number of k-mer matches the scan counted on diagonal d
MatchCount(d) == Cardinality({m \in call.matches : m[1] - m[2] = d})

\* the band of half-width floor(B/2) around diagonal d, cut to the matrix
BandAround(d) ==
  Max(1 - env.yLen, d - (call.bandSize \div 2))..Min(env.xLen - 1, d + (call.bandSize \div 2))

\* the diagonals of the matrix
MatrixDiagonals == (1 - env.yLen)..(env.xLen - 1)

\* C22 as stated: with a fixed threshold N >= 0 on the sparse path, the compute set
\* is exactly {0} united with the band around every diagonal whose k-mer match count
\* is >= N; no diagonal with count < N seeds a band, and negative seed diagonals are
\* banded around their own index.
C22_FixedThresholdBandsAsStated ==
  (SparseBuilt /\ call.kmerThreshold >= 0) =>
    Range(env.diagonals) =
      {0} \cup UNION {BandAround(d) : d \in {e \in MatrixDiagonals :
                                               MatchCount(e) >= call.kmerThreshold}}

\* C22 amended: with a fixed threshold N >= 0 on the sparse path, the compute set is
\* exactly {0} united with the band around every diagonal that has at least one
\* k-mer match and whose match count is >= N; a diagonal without a match or with
\* count < N seeds no band, and negative seed diagonals are banded around their own
\* index.
C22_FixedThresholdBands ==
  (SparseBuilt /\ call.kmerThreshold >= 0) =>
    Range(env.diagonals) =
      {0} \cup UNION {BandAround(d) : d \in {e \in MatrixDiagonals :
                                               /\ MatchCount(e) >= 1
                                               /\ MatchCount(e) >= call.kmerThreshold}}

\* threshold 2 and a band of two: a negative diagonal with two matches has seeded its
\* band, a diagonal with one match has not, and the envelope is not the whole matrix
C22_Witness ==
  /\ SparseBuilt /\ call.kmerThreshold = 2 /\ call.bandSize = 2
  /\ \E d \in MatrixDiagonals :
       /\ d < -1 /\ MatchCount(d) >= 2
       /\ \A e \in (d - 1)..(d + 1) : e \in Range(env.diagonals)
  /\ \E d \in MatrixDiagonals : MatchCount(d) = 1 /\ d \notin Range(env.diagonals)

\* threshold 0: a diagonal without a match is left out of the envelope
C22_NoMatchNoBand ==
  /\ SparseBuilt /\ call.kmerThreshold = 0
  /\ \E d \in MatrixDiagonals : MatchCount(d) = 0 /\ d \notin Range(env.diagonals)

\* the diagonals on which the scan counted a match
SeedDiagonals == {m[1] - m[2] : m \in call.matches}

\* the counts of the buckets, highest first
BucketCounts == Reverse(SortedSeq({MatchCount(d) : d \in SeedDiagonals}))

\* the seed diagonals of the first k buckets
SeedsOfFirst(k) == {d \in SeedDiagonals : \E n \in 1..k : MatchCount(d) = BucketCounts[n]}

\* the storage set accumulated over the first k buckets: diagonal 0 and, for each
\* seed, its band and one diagonal on either side
StorageOfFirst(k) ==
  {0} \cup UNION {(Max(1 - env.yLen, d - (call.bandSize \div 2)) - 1)
                    ..(Min(env.xLen - 1, d + (call.bandSize \div 2)) + 1) : d \in SeedsOfFirst(k)}

\* the cells reckoned for the first k buckets: min(xLen, yLen) for each storage diagonal
CellsOfFirst(k) == Cardinality(StorageOfFirst(k)) * Min(env.xLen, env.yLen)

\* the number of buckets in the longest prefix that satisfies Fits at each of its lengths
LongestPrefix(Fits(_)) ==
  CHOOSE k \in 0..Len(BucketCounts) :
    /\ \A n \in 1..k : Fits(n)
    /\ k < Len(BucketCounts) => ~Fits(k + 1)

\* the outcome of the bucket loop when k buckets are admitted
AdmittedFirst(k) ==
  /\ call.admitted = SubSeq(BucketCounts, 1, k)
  /\ Range(env.diagonals) = {0} \cup UNION {BandAround(d) : d \in SeedsOfFirst(k)}
  /\ call.storageDiags = StorageOfFirst(k)
  /\ k >= 1 => call.foundThreshold /\ call.threshold = BucketCounts[k]

FitsWithin(k) == CellsOfFirst(k) * call.cellSize <= call.maxSize

FitsBelow(k) == CellsOfFirst(k) * call.cellSize < call.maxSize

\* C23 as stated: in memory-bound mode the count buckets are considered in strictly
\* descending count order and admitted all-or-nothing: the admitted buckets are
\* exactly the longest prefix of that order for which the accumulated storage set
\* stays within memoryBudget/cellBytes, no bucket after the first rejected one is
\* admitted, and the reported threshold is the count of the last admitted bucket.
C23_LongestPrefixWithinAsStated ==
  (SparseBuilt /\ call.kmerThreshold < 0) => AdmittedFirst(LongestPrefix(FitsWithin))

\* C23 amended: as stated, but a bucket is admitted only while the accumulated storage
\* set, reckoned at min(xLen, yLen) cells a diagonal, stays strictly below
\* memoryBudget/cellBytes: a bucket that would fill the budget exactly is rejected.
C23_LongestPrefixBelow ==
  (SparseBuilt /\ call.kmerThreshold < 0) => AdmittedFirst(LongestPrefix(FitsBelow))

\* two buckets were admitted and a third one rejected
C23_Witness ==
  /\ SparseBuilt /\ call.kmerThreshold < 0
  /\ Len(call.admitted) = 2 /\ Len(BucketCounts) >= 3
  /\ call.admitted[1] > call.admitted[2]
  /\ call.threshold = call.admitted[2]

\* a bucket that would have filled the budget exactly was rejected
C23_ExactFitRejected ==
  /\ SparseBuilt /\ call.kmerThreshold < 0
  /\ Len(call.admitted) < Len(BucketCounts)
  /\ CellsOfFirst(Len(call.admitted) + 1) * call.cellSize = call.maxSize

(***************************************************************************)
(* Reconstructor::Dataset.  A tree is the sequence of its nodes, numbered  *)
(* from 0, children before parents and the root last; a node is its        *)
(* children (none for a leaf, two otherwise, in getChild order) and the    *)
(* length of the branch to its parent.  data.pc is how far the dataset has *)
(* come: "loaded", "prepared" (prepareRecon has run), "reconstructed" or   *)
(* "abort"; data.opts are the Reconstructor's options, data.log what       *)
(* reconstruct did at each node it came to.                                *)
(***************************************************************************)
\* the greatest number of nodes of a tree
MaxTreeNodes == 5

BranchLengths == {1, 3}

\* the nodes of the child lists t that are no node's child
Orphans(t) == {i \in 0..(Len(t) - 1) : \A k \in 1..Len(t) : \A c \in 1..Len(t[k]) : t[k][c] # i}

\* the child lists of n nodes in which every node is a leaf or has two earlier
\* nodes, children of no other node, for children
RECURSIVE ChildLists(_)
ChildLists(n) ==
  IF n = 0 THEN {<<>>}
  ELSE UNION {{Append(t, <<>>)}
                \cup {Append(t, p) : p \in {q \in Orphans(t) \X Orphans(t) : q[1] # q[2]}} :
              t \in ChildLists(n - 1)}

\* the binary trees of up to MaxTreeNodes nodes whose children precede their parents
Trees ==
  UNION {{[i \in 1..n |-> [child |-> t[i], len |-> IF i = n THEN 0 ELSE l[i]]] :
            t \in {u \in ChildLists(n) : Orphans(u) = {n - 1}}, l \in [1..n -> BranchLengths]} :
         n \in 1..MaxTreeNodes}

nodes(tree) == Len(tree)

root(tree) == nodes(tree) - 1

isLeaf(tree, node) == tree[node + 1].child = <<>>

nChildren(tree, node) == Len(tree[node + 1].child)

getChild(tree, node, nc) == tree[node + 1].child[nc + 1]

branchLength(tree, node) == tree[node + 1].len

\* the loop over the children of an internal node: for (nc = 0; nc < nChildren; ++nc)
RECURSIVE ClosestChildLoop(_, _, _, _, _)
ClosestChildLoop(tree, node, nc, D, acc) ==
  IF nc >= nChildren(tree, node) THEN acc
  ELSE LET c  == getChild(tree, node, nc)
           dc == D.closestLeafDistance[c + 1] + branchLength(tree, c)
       IN ClosestChildLoop(tree, node, nc + 1, D,
                           IF nc = 0 \/ dc < acc.dcl
                           THEN [cl |-> D.closestLeaf[c + 1], dcl |-> dc] ELSE acc)

\* faulty variant of ClosestStep: an internal node takes the leaf of its first child
ClosestStep_FirstChild(tree, node, D) ==
  IF isLeaf(tree, node)
  THEN [closestLeaf |-> Append(D.closestLeaf, node),
        closestLeafDistance |-> Append(D.closestLeafDistance, 0)]
  ELSE LET c == getChild(tree, node, 0)
       IN [closestLeaf |-> Append(D.closestLeaf, D.closestLeaf[c + 1]),
           closestLeafDistance |->
             Append(D.closestLeafDistance, D.closestLeafDistance[c + 1] + branchLength(tree, c))]

\* one iteration of the loop over the nodes: what is pushed back for node
ClosestStep(tree, node, D) ==
  IF isLeaf(tree, node)
  THEN [closestLeaf |-> Append(D.closestLeaf, node),
        closestLeafDistance |-> Append(D.closestLeafDistance, 0)]
  ELSE LET r == ClosestChildLoop(tree, node, 0, D, [cl |-> -1, dcl |-> 0])
       IN [closestLeaf |-> Append(D.closestLeaf, r.cl),
           closestLeafDistance |-> Append(D.closestLeafDistance, r.dcl)]

\* Dataset::prepareRecon: closestLeaf and closestLeafDistance after the loop over
\* the nodes from node on
RECURSIVE prepareRecon(_, _, _)
prepareRecon(tree, node, D) ==
  IF node >= nodes(tree) THEN D
  ELSE prepareRecon(tree, node + 1, ClosestStep(tree, node, D))
\* the options of the Reconstructor that reconstruct looks at, node by node
\* (dotSave: dotSaveFilename is not empty)
ReconOptions ==
  [accumulateSubstCounts : BOOLEAN, accumulateIndelCounts : BOOLEAN, dotSave : BOOLEAN,
   usePosteriorsForProfile : BOOLEAN, usePosteriorsForDot : BOOLEAN, reconstructRoot : BOOLEAN]

\* faulty variant of BackwardWanted: posteriors ask for a Backward matrix at the root too
BackwardWanted_AnyNode(tree, o, node) ==
  \/ (o.accumulateSubstCounts \/ o.accumulateIndelCounts \/ o.dotSave) /\ node = root(tree)
  \/ o.usePosteriorsForProfile

\* the condition of backward = new BackwardMatrix (*forward)
BackwardWanted(tree, o, node) ==
  \/ (o.accumulateSubstCounts \/ o.accumulateIndelCounts \/ o.dotSave) /\ node = root(tree)
  \/ o.usePosteriorsForProfile /\ node # root(tree)

\* faulty variant of NodeProfile: a node at which posteriors are used is sampled as well
NodeProfile_Sampled(tree, o, node) ==
  IF node = root(tree)
  THEN IF o.reconstructRoot THEN <<"forward", "bestProfile">> ELSE <<>>
  ELSE <<"forward", "sampleProfile", "profileSamples", "profileNodeLimit">>

\* what nodeProf is assigned at an internal node: the matrix and the call that build
\* it with the options passed, <<>> when nothing is assigned
NodeProfile(tree, o, node) ==
  IF node = root(tree)
  THEN IF o.reconstructRoot THEN <<"forward", "bestProfile">> ELSE <<>>
  ELSE IF o.usePosteriorsForProfile
  THEN <<"backward", "postProbProfile", "minPostProb", "profileNodeLimit">>
  ELSE <<"forward", "sampleProfile", "profileSamples", "profileNodeLimit">>

\* the calls made on the Backward matrix at an internal node, in order
BackwardCalls(tree, o, node) ==
  (IF node = root(tree) /\ o.dotSave
   THEN <<IF o.usePosteriorsForDot THEN "postProbProfile" ELSE "bestProfile">> ELSE <<>>)
  \o (IF NodeProfile(tree, o, node) # <<>> /\ NodeProfile(tree, o, node)[1] = "backward"
      THEN <<NodeProfile(tree, o, node)[2]>> ELSE <<>>)
  \o (IF (o.accumulateSubstCounts \/ o.accumulateIndelCounts) /\ node = root(tree)
      THEN <<"getCounts">> ELSE <<>>)

\* the body of the loop of reconstruct for one node
ReconstructNode(tree, o, node) ==
  IF isLeaf(tree, node)
  THEN [node |-> node, forward |-> FALSE, backward |-> FALSE, backwardCalls |-> <<>>,
        nodeProf |-> <<"Profile">>, path |-> <<>>]
  ELSE [node |-> node, forward |-> TRUE,
        backward |-> BackwardWanted(tree, o, node),
        backwardCalls |-> BackwardCalls(tree, o, node),
        nodeProf |-> NodeProfile(tree, o, node),
        path |-> IF node = root(tree) /\ o.reconstructRoot
                 THEN <<"forward", "bestAlignPath">> ELSE <<>>]

\* Reconstructor::reconstruct: the nodes in order, up to the node (if any) at which
\* the Forward retry loop aborts
reconstruct_log(tree, o, abortAt) ==
  [n \in 1..(IF abortAt < nodes(tree) THEN abortAt ELSE nodes(tree)) |->
     ReconstructNode(tree, o, n - 1)]

InitData ==
  /\ NoProfile
  /\ envOp = "none" /\ env = NewEnvelope(<<>>, <<>>) /\ call = NoCall
  /\ retry = NoRetry /\ rng = NoRng /\ params = NoParams
  /\ \E tree \in Trees, o \in ReconOptions :
       data = [pc |-> "loaded", tree |-> tree, opts |-> o,
               closestLeaf |-> <<>>, closestLeafDistance |-> <<>>, log |-> <<>>]

\* dataset.prepareRecon (*this), called once on a dataset that has its tree
PrepareRecon ==
  /\ data.pc = "loaded"
  /\ LET D == prepareRecon(data.tree, 0, [closestLeaf |-> data.closestLeaf,
                                          closestLeafDistance |-> data.closestLeafDistance])
     IN data' = [data EXCEPT !.pc = "prepared", !.closestLeaf = D.closestLeaf,
                             !.closestLeafDistance = D.closestLeafDistance]
  /\ UNCHANGED <<profVars, envVars, retry, rng, params>>

\* reconstruct (dataset); the Forward retry loop of internal node abortAt ends in
\* Abort, or of none when abortAt is the number of nodes
Reconstruct_Dataset(abortAt) ==
  /\ data.pc = "prepared"
  /\ abortAt = nodes(data.tree) \/ (abortAt < nodes(data.tree) /\ ~isLeaf(data.tree, abortAt))
  /\ data' = [data EXCEPT !.pc = IF abortAt < nodes(data.tree) THEN "abort" ELSE "reconstructed",
                          !.log = reconstruct_log(data.tree, data.opts, abortAt)]
  /\ UNCHANGED <<profVars, envVars, retry, rng, params>>

NextData ==
  \/ PrepareRecon
  \/ \E abortAt \in 0..MaxTreeNodes : Reconstruct_Dataset(abortAt)

SpecData == InitData /\ [][NextData]_vars

(***************************************************************************)
(* Properties of prepareRecon and reconstruct.                             *)
(***************************************************************************)
\* the leaves of the subtree of node n of the dataset's tree
RECURSIVE SubtreeLeaves(_)
SubtreeLeaves(n) ==
  IF data.tree[n + 1].child = <<>> THEN {n}
  ELSE UNION {SubtreeLeaves(data.tree[n + 1].child[k]) : k \in 1..Len(data.tree[n + 1].child)}

\* the sum of the branch lengths from node n down to leaf l of its subtree
RECURSIVE DistanceDown(_, _)
DistanceDown(n, l) ==
  IF n = l THEN 0
  ELSE LET c == CHOOSE k \in Range(data.tree[n + 1].child) : l \in SubtreeLeaves(k)
       IN data.tree[c + 1].len + DistanceDown(c, l)

\* C26: after prepareRecon on a binary tree whose children precede their parents, for
\* every node n closestLeafDistance[n] is the minimum over the leaves of n's subtree of
\* the sum of branch lengths from n down to the leaf, closestLeaf[n] is a leaf of n's
\* subtree attaining that minimum, and for a leaf n closestLeaf[n] = n with distance 0.
C26_ClosestLeaf ==
  data.pc \in {"prepared", "reconstructed", "abort"} =>
    /\ Len(data.closestLeaf) = Len(data.tree)
    /\ Len(data.closestLeafDistance) = Len(data.tree)
    /\ \A n \in 0..(Len(data.tree) - 1) :
         /\ data.closestLeaf[n + 1] \in SubtreeLeaves(n)
         /\ data.closestLeafDistance[n + 1] = DistanceDown(n, data.closestLeaf[n + 1])
         /\ \A l \in SubtreeLeaves(n) : data.closestLeafDistance[n + 1] <= DistanceDown(n, l)
         /\ data.tree[n + 1].child = <<>> =>
              data.closestLeaf[n + 1] = n /\ data.closestLeafDistance[n + 1] = 0

\* a tree of five nodes in which the leaf closest to the root lies two branches down,
\* under the second child of the root, and is strictly closer than the root's own leaf
C26_Witness ==
  /\ data.pc = "prepared"
  /\ Len(data.tree) = 5
  /\ LET r  == Len(data.tree) - 1
         c1 == data.tree[r + 1].child[1]
         c2 == data.tree[r + 1].child[2]
     IN /\ data.tree[c1 + 1].child = <<>>
        /\ data.closestLeaf[r + 1] \in SubtreeLeaves(c2)
        /\ data.closestLeafDistance[r + 1] = 2
        /\ data.tree[c1 + 1].len > 2

\* entry k of the log is that of the root
LoggedRoot(k) == data.log[k].node = Len(data.tree) - 1

\* C24: in reconstruct(), at a node where Forward is run, a Backward matrix is
\* constructed exactly when (the node is the root and substitution counts, indel counts
\* or a DOT file are requested) or (the node is not the root and
\* usePosteriorsForProfile is set); every use of the Backward matrix (postProbProfile,
\* bestProfile for DOT, getCounts) happens only at a node where it was constructed, for
\* every combination of options.
C24_BackwardWhenNeeded ==
  \A k \in 1..Len(data.log) :
    LET e == data.log[k]
        o == data.opts
    IN /\ e.forward =>
            (e.backward <=>
               \/ LoggedRoot(k) /\ (o.accumulateSubstCounts \/ o.accumulateIndelCounts \/ o.dotSave)
               \/ ~LoggedRoot(k) /\ o.usePosteriorsForProfile)
       /\ e.backwardCalls # <<>> => e.backward
       /\ (e.nodeProf # <<>> /\ e.nodeProf[1] = "backward") => e.backward

\* posteriors are used below the root, where the matrix is built and called, and the
\* root, where nothing is requested, has none
C24_Witness ==
  /\ data.pc = "reconstructed"
  /\ data.opts.usePosteriorsForProfile
  /\ \E k \in 1..Len(data.log) :
       ~LoggedRoot(k) /\ data.log[k].backward /\ data.log[k].backwardCalls = <<"postProbProfile">>
  /\ \E k \in 1..Len(data.log) :
       LoggedRoot(k) /\ data.log[k].forward /\ ~data.log[k].backward

\* C25: at every non-root internal node the parent profile is built by posterior
\* decoding (minPostProb, profileNodeLimit) iff usePosteriorsForProfile is set and
\* otherwise by sampling profileSamples tracebacks; at the root neither policy is used,
\* and the final alignment path and the root profile are taken from the best
\* traceback, and only when reconstructRoot is set.
C25_ProfilePolicy ==
  \A k \in 1..Len(data.log) :
    LET e == data.log[k]
        o == data.opts
    IN e.forward =>
         IF ~LoggedRoot(k)
         THEN /\ e.path = <<>>
              /\ o.usePosteriorsForProfile =>
                   e.nodeProf = <<"backward", "postProbProfile", "minPostProb", "profileNodeLimit">>
              /\ ~o.usePosteriorsForProfile =>
                   e.nodeProf = <<"forward", "sampleProfile", "profileSamples", "profileNodeLimit">>
         ELSE /\ o.reconstructRoot =>
                   /\ e.path = <<"forward", "bestAlignPath">>
                   /\ e.nodeProf = <<"forward", "bestProfile">>
              /\ ~o.reconstructRoot => e.path = <<>> /\ e.nodeProf = <<>>

\* a tree with an internal node below the root, reconstructed with posteriors and
\* with the root
C25_Witness ==
  /\ data.pc = "reconstructed"
  /\ data.opts.usePosteriorsForProfile /\ data.opts.reconstructRoot
  /\ Len(data.log) = 5
  /\ \E k \in 1..Len(data.log) :
       ~LoggedRoot(k) /\ data.log[k].forward /\ data.log[k].nodeProf[2] = "postProbProfile"
  /\ data.log[5].nodeProf = <<"forward", "bestProfile">>

(***************************************************************************)
(* Profile::assertSeqCoordsConsistent called on a profile of two states    *)
(* and one transition whose coordinates and paths are arbitrary: each of   *)
(* rows 0 and 1 is present or absent in every map.                         *)
(***************************************************************************)
\* the greatest sequence coordinate of a state
MaxCoord == 2

\* the maps from some of the rows to a member of S
RowMaps(S) == UNION {[R -> S] : R \in SUBSET GivenRows}

\* the profile with the given coordinates of its two states and the given paths of
\* its transition and of its second state
TwoStateProfile(srcCoords, destCoords, transPath, destPath) ==
  [EmptyProfile EXCEPT
     !.state = <<[DefaultState EXCEPT !.name = "src", !.seqCoords = srcCoords,
                                      !.nullOut = <<0>>],
                 [DefaultState EXCEPT !.name = "dest", !.seqCoords = destCoords,
                                      !.alignPath = destPath, !.in = <<0>>]>>,
     !.trans = <<[DefaultTransition EXCEPT !.src = 0, !.dest = 1, !.lpTrans = 0,
                                           !.alignPath = transPath]>>]

InitCoords ==
  /\ NoEnvelope
  /\ NoRecon
  /\ nReady = 0
  /\ args = NoArgs
  /\ op = "unchecked"
  /\ \E srcCoords \in RowMaps(0..1), destCoords \in RowMaps(0..MaxCoord),
        transPath \in RowMaps({<<TRUE>>, <<FALSE>>}), destPath \in RowMaps({<<TRUE>>, <<FALSE>>}) :
       prof = TwoStateProfile(srcCoords, destCoords, transPath, destPath)
  /\ prev = prof

\* prof.assertSeqCoordsConsistent(): the program stops when an assertion fails
AssertSeqCoordsConsistent ==
  /\ op = "unchecked"
  /\ op' = IF assertSeqCoordsConsistent(prof) THEN "consistent" ELSE "abort"
  /\ UNCHANGED <<prof, prev, args, nReady, envVars, reconVars>>

NextCoords == AssertSeqCoordsConsistent

SpecCoords == InitCoords /\ [][NextCoords]_vars

\* the check has run on the two-state profile
CoordsChecked == op \in {"consistent", "abort"} /\ prof.state[1].name = "src"

\* the residues that the transition's path and the second state's path give row r
ResiduesInto(r) ==
  alignPathResiduesInRow(PathGet(prof.trans[1].alignPath, r))
    + alignPathResiduesInRow(PathGet(prof.state[2].alignPath, r))

\* row r violates destCoords[r] = srcCoords[r] + residues(transPath[r]) +
\* residues(destPath[r]); without an entry in the destination's coordinates it does
\* as soon as the paths hold a residue of r
RowViolates(r) ==
  IF r \in DOMAIN prof.state[2].seqCoords
  THEN prof.state[2].seqCoords[r] # MapGet(prof.state[1].seqCoords, r) + ResiduesInto(r)
  ELSE ResiduesInto(r) > 0

\* the rows mentioned in the source coordinates, the transition path or the
\* destination state's path
RowsMentioned ==
  DOMAIN prof.state[1].seqCoords \cup DOMAIN prof.trans[1].alignPath
    \cup DOMAIN prof.state[2].alignPath

\* C27: the sequence-coordinate check is complete: assertSeqCoordsConsistent raises a
\* fatal assertion for every transition in which some row r mentioned in the source
\* coordinates, the transition path or the destination state's path violates
\* destCoords[r] = srcCoords[r] + residues(transPath[r]) + residues(destPath[r]),
\* including the case where r has residues in those paths but no entry in the
\* destination's seqCoords.
C27_CheckComplete ==
  (CoordsChecked /\ \E r \in RowsMentioned : RowViolates(r)) => op = "abort"

\* the check lets through a transition whose path has a residue of a row that the
\* destination has no coordinate for
C27_MissedRow ==
  /\ CoordsChecked /\ op = "consistent"
  /\ \E r \in RowsMentioned :
       r \notin DOMAIN prof.state[2].seqCoords /\ ResiduesInto(r) > 0

\* what the check does catch: a row with an entry in the destination's coordinates
\* that is mentioned nowhere else or that differs from the sum
C27_CheckedRows ==
  CoordsChecked =>
    (op = "abort" <=>
       \E r \in DOMAIN prof.state[2].seqCoords :
         \/ r \notin RowsMentioned
         \/ prof.state[2].seqCoords[r] # MapGet(prof.state[1].seqCoords, r) + ResiduesInto(r))

\* the adjacency lists of profile P agree with its transition records
AdjacencyAgrees(P) ==
  \A q \in 0..(Len(P.state) - 1) :
    /\ \A n \in 1..Len(P.state[q + 1].nullOut) : P.trans[P.state[q + 1].nullOut[n] + 1].src = q
    /\ \A n \in 1..Len(P.state[q + 1].absorbOut) : P.trans[P.state[q + 1].absorbOut[n] + 1].src = q
    /\ \A n \in 1..Len(P.state[q + 1].in) : P.trans[P.state[q + 1].in[n] + 1].dest = q

\* C28: adjacency lists and transition records agree in every profile the code builds,
\* in particular after addReadyStates: for every state q and every transition index t
\* listed in state[q].nullOut or state[q].absorbOut, trans[t].src = q, and for every t
\* listed in state[q].in, trans[t].dest = q.
C28_AdjacencyAgrees ==
  op \in {"Profile", "addReadyStates"} => AdjacencyAgrees(prof)

\* addReadyStates was given a profile whose lists agree and returned one in which a
\* Ready state lists an absorbing transition whose record names the Wait state as source
C28_ReadySourceIsWait ==
  /\ op = "addReadyStates" /\ nReady = 1
  /\ AdjacencyAgrees(prev)
  /\ \E q \in 1..(Len(prof.state) - 1) :
       /\ prof.state[q + 1].absorbOut # <<>>
       /\ prof.trans[prof.state[q + 1].absorbOut[1] + 1].src = q - 1

\* the lists agree in every leaf profile and in every profile handed to addReadyStates
C28_AgreesBefore ==
  /\ op \in {"Profile", "given"} => AdjacencyAgrees(prof)
  /\ (op = "addReadyStates" /\ nReady = 1) => AdjacencyAgrees(prev)

(***************************************************************************)
(* Termination of the Forward retry loop.  The loop is sequential code:    *)
(* while it has not left while (true) its next statement is executed.  A   *)
(* turn is taken in two halves here, so that a loop that comes back to the *)
(* same values is seen as running and not as standing still.               *)
(***************************************************************************)
\* forward = new ForwardMatrix (...): the first half of a turn; retry.pc keeps whether
\* lpEnd is finite
BuildForward(lpFinite) ==
  /\ retry.pc = "loop"
  /\ retry' = [retry EXCEPT !.pc = IF lpFinite THEN "finite" ELSE "zero"]
  /\ UNCHANGED <<profVars, envVars, rng, params, data>>

\* the second half: break, Abort, or a new maxDist and delete forward
TestForward ==
  /\ retry.pc \in {"finite", "zero"}
  /\ IF retry.pc = "finite" THEN retry' = [retry EXCEPT !.pc = "accepted"]
     ELSE IF retry.maxDist < 0 THEN retry' = [retry EXCEPT !.pc = "abort"]
     ELSE \E m \in NextMaxDist(retry.maxDist, retry.guideCols) :
            retry' = [retry EXCEPT !.pc = "loop", !.maxDist = m]
  /\ UNCHANGED <<profVars, envVars, rng, params, data>>

\* the loop without a limit on its turns
NextRetryLive ==
  \/ \E lpFinite \in BOOLEAN : BuildForward(lpFinite)
  \/ TestForward

SpecRetryLive == InitRetry /\ [][NextRetryLive]_vars /\ WF_vars(NextRetryLive)

\* C29: the per-node Forward retry loop in reconstruct() always terminates: for every
\* value of maxDistanceFromGuide >= -1, every guide alignment (an empty one included)
\* and every pattern of Forward outcomes, only finitely many Forward attempts are made
\* before either an attempt with finite lpEnd is accepted or the run aborts with the
\* zero-likelihood error.
C29_RetryTerminates == <>(retry.pc \in {"accepted", "abort"})

\* the loop is where it was: after two failed attempts with band 0 the band is 0 again
C29_StuckAtZero ==
  /\ retry.pc = "loop" /\ retry.maxDist = 0
  /\ Len(retry.attempts) >= 2
  /\ \A k \in 1..Len(retry.attempts) :
       retry.attempts[k].maxDist = 0 /\ ~retry.attempts[k].lpFinite

\* from any other band the loop is left: a loop that is still running has started
\* from band 0 or has attempts to spare
C29_TerminatesUnlessZero ==
  (retry.pc = "loop" /\ Len(retry.attempts) = MaxAttempts) => retry.attempts[1].maxDist = 0

\* C30: the k-mer seeding scan in initSparse never reads past the end of x: for all
\* xLen, yLen, kmerLen and both threshold modes, whenever the scan runs every scanned
\* start position i satisfies i + kmerLen <= xLen (so no position is scanned when
\* xLen < kmerLen), and every counted diagonal i - j lies within
\* [minDiagonal, maxDiagonal].
C30_ScanWithinX ==
  (call.path = "sparse" /\ call.kmerLen > 0) =>
    /\ ~call.overrun
    /\ \A m \in call.matches :
         /\ m[1] + call.kmerLen <= env.xLen
         /\ 1 - env.yLen <= m[1] - m[2] /\ m[1] - m[2] <= env.xLen - 1

\* x is shorter than a k-mer and the scan has run: it has left x and read what lies
\* behind it, here ending in a fault
C30_ScanLeftX ==
  /\ call.path = "sparse" /\ call.kmerLen > env.xLen
  /\ call.kmerThreshold < 0
  /\ call.overrun /\ envOp = "fault"

\* when x holds at least one k-mer the scan stays within x and counts diagonals of
\* the matrix only
C30_WithinWhenLongEnough ==
  (call.path = "sparse" /\ call.kmerLen > 0 /\ env.xLen >= call.kmerLen) =>
    /\ ~call.overrun
    /\ \A m \in call.matches :
         /\ m[1] + call.kmerLen <= env.xLen
         /\ 1 - env.yLen <= m[1] - m[2] /\ m[1] - m[2] <= env.xLen - 1

====
